---- MODULE Spec2Model ----
(***************************************************************************)
(* A model of uchan: the unbounded channel (uchan.c), its backing ring     *)
(* buffer (vqueue.c) and the receive-select built on helper threads.       *)
(* Threads are pthreads; every action below is one step a thread takes     *)
(* between two points at which other threads can observe shared state      *)
(* (a mutex acquisition, a critical section, a condition wait).            *)
(***************************************************************************)
EXTENDS Integers, Sequences, FiniteSets, TLC

(***************************************************************************)
(* Bounds of the model.                                                    *)
(***************************************************************************)
\* The largest initial value of a countdown (countdown_new(n), n > 0).
MaxCount == 2
\* The largest amount i of countdown_add / countdown_sub.
MaxAmount == 2
\* Adjusting calls (add, inc, sub, dec, set) per adjusting thread.
MaxAdjust == 2
\* Number of channels (n_channels of the select call, too).
NCh == 2
\* fib.c: the number of tasks produce_tasks sends (10 in main), the number
\* of solve_tasks threads (n_solvers, 10 in main), the task itself (37).
NTasks == 2
NSolvers == 2
FibArg == 5
\* Number of uchan_send calls each producer thread makes.
MaxSends == 2
\* Number of uchan_receive2 calls each receiver thread makes.
MaxRecvs == 2
\* Number of uchan_close calls the closing thread makes (a second close of
\* the same channel is the double close).
MaxCloses == 2

Chans == 0 .. (NCh - 1)
Producers == {"p1", "p2"}
Receivers == {"r1", "r2"}
Closer == "main"
Freer == "owner"
Sel == "sel"
HelperNames == <<"h0", "h1", "h2">>
\* The helper thread that select creates for items[i].
Helper(i) == HelperNames[i + 1]
Helpers == {Helper(i) : i \in Chans}
HelperIndex(h) == CHOOSE i \in Chans : Helper(i) = h
\* A producer that sends the NULL payload.
NullProducer == "p0"
Senders == Producers \cup {NullProducer}
\* The threads that use a countdown: main waits on it (and then closes the
\* work channel, as in quicksort.c), workers adjust it, its owner frees it.
Waiters == {Closer, "w2"}
Adjusters == {"a1", "a2"}
CdOwner == "cdowner"
\* The threads of fib.c: produce_tasks, the solve_tasks threads, and main.
FibProducer == "producer"
SolverNames == <<"s1", "s2", "s3">>
Solvers == {SolverNames[i] : i \in 1 .. NSolvers}
FibMain == "fibmain"
FibThreads == {FibProducer, FibMain} \cup Solvers
Threads == Senders \cup Receivers \cup {Closer, Freer, Sel} \cup Helpers
           \cup Waiters \cup Adjusters \cup {CdOwner} \cup FibThreads

\* The NULL pointer (void* payloads are pointer-sized integers).
NULL == 0
\* The contents of a slot of xmalloc'ed memory that was never written.
Junk == -1
\* cs.selected == NULL: no item selected yet (an index outside the items).
NoItem == NCh
\* uchan_select has not returned.
NoReturn == [idx |-> NoItem, x |-> NULL, ok |-> FALSE, phase |-> "none"]
\* No thread / no item.
None == "none"

ProducerId(p) == IF p = "p1" THEN 1 ELSE 2
\* The k-th payload of producer p (chan_select_test.c sends 10 * i_ch + x);
\* x is allowed to be NULL.
Payload(p, k) == IF p = NullProducer THEN NULL ELSE 10 * ProducerId(p) + k

(***************************************************************************)
(* vqueue.c: the ring buffer.  A VQueue is a record; data is the array.    *)
(***************************************************************************)
INITIAL_CAP == 512

vqueue_new ==
    [cap |-> INITIAL_CAP, len |-> 0, head |-> 0, tail |-> 0,
     data |-> [i \in 0 .. (INITIAL_CAP - 1) |-> Junk]]

vqueue_empty(q) == q.len <= 0

vqueue_len(q) == q.len

\* A grow that copies the old array as it lies, without rotating it.
vqueue_grow_unrotated(q) ==
    LET n == q.cap
        cap_new == 2 * n
    IN  [cap |-> cap_new, len |-> q.len, head |-> 0, tail |-> n,
         data |-> [i \in 0 .. (cap_new - 1) |->
                     IF i < n THEN q.data[i] ELSE Junk]]

\* The grow step of vqueue_put: the two memcpy calls into the new array.
vqueue_grow(q) ==
    LET n == q.cap
        h == q.head
        t == q.tail
        cap_new == 2 * n
    IN  [cap |-> cap_new, len |-> q.len, head |-> 0, tail |-> n,
         data |-> [i \in 0 .. (cap_new - 1) |->
                     IF i < n - h THEN q.data[h + i]
                     ELSE IF i < (n - h) + t THEN q.data[i - (n - h)]
                     ELSE Junk]]

\* A put that advances tail without wrapping it around.
vqueue_put_no_wrap(q, x) ==
    LET g == IF q.len = q.cap THEN vqueue_grow(q) ELSE q
    IN  [g EXCEPT !.data[g.tail] = x,
                  !.len = g.len + 1,
                  !.tail = g.tail + 1]

\* A put that grows one call early, when the array is about to be full.
vqueue_put_early(q, x) ==
    LET g == IF q.len >= q.cap - 1 THEN vqueue_grow(q) ELSE q
    IN  [g EXCEPT !.data[g.tail] = x,
                  !.len = g.len + 1,
                  !.tail = (g.tail + 1) % g.cap]

\* vqueue_put past its require: grow if full, store at tail, advance tail.
vqueue_put(q, x) ==
    LET g == IF q.len = q.cap THEN vqueue_grow(q) ELSE q
    IN  [g EXCEPT !.data[g.tail] = x,
                  !.len = g.len + 1,
                  !.tail = (g.tail + 1) % g.cap]

\* A shrink to a quarter of the capacity, without the lower limit.
vqueue_shrink_quarter(q) ==
    LET n == q.cap
        h == q.head
        cap_new == n \div 4
    IN  [cap |-> cap_new, len |-> q.len, head |-> 0, tail |-> q.len % cap_new,
         data |-> [i \in 0 .. (cap_new - 1) |->
                     IF i < q.len THEN q.data[(h + i) % n] ELSE Junk]]

\* The shrink step of vqueue_get, applied after len and head were updated.
vqueue_shrink(q) ==
    LET n == q.cap
        h == q.head
        t == q.tail
        half == n \div 2
        cap_new == IF half < INITIAL_CAP THEN INITIAL_CAP ELSE half
    IN  [cap |-> cap_new, len |-> q.len, head |-> 0, tail |-> q.len,
         data |-> [i \in 0 .. (cap_new - 1) |->
                     IF h <= t
                     THEN (IF i < t - h THEN q.data[h + i] ELSE Junk)
                     ELSE (IF i < n - h THEN q.data[h + i]
                           ELSE IF i < (n - h) + t THEN q.data[i - (n - h)]
                           ELSE Junk)]]

\* A vqueue_get that reads the newest slot instead of the oldest.
vqueue_get_value_newest(q) == q.data[(q.tail + q.cap - 1) % q.cap]

\* The value vqueue_get returns.
vqueue_get_value(q) == q.data[q.head]

\* A vqueue_get that shrinks already at a quarter of the capacity.
vqueue_get_at_quarter(q) ==
    LET r == [q EXCEPT !.len = q.len - 1, !.head = (q.head + 1) % q.cap]
    IN  IF r.cap > INITIAL_CAP /\ r.len <= r.cap \div 4
        THEN vqueue_shrink(r)
        ELSE r

\* The queue vqueue_get leaves behind.
vqueue_get(q) ==
    LET r == [q EXCEPT !.len = q.len - 1, !.head = (q.head + 1) % q.cap]
    IN  IF r.cap > INITIAL_CAP /\ r.len < r.cap \div 4
        THEN vqueue_shrink(r)
        ELSE r

\* The logical contents of the ring buffer, head first.
Contents(q) == [i \in 1 .. q.len |-> q.data[(q.head + i - 1) % q.cap]]

(***************************************************************************)
(* State.                                                                  *)
(***************************************************************************)
VARIABLES
    queue,      \* queue[c]: the VQueue of channel c (struct UChan.queue)
    closed,     \* closed[c]: struct UChan.closed
    mutex,      \* mutex[c]: the thread that holds UChan.mutex, or None
    pc,         \* pc[t]: where thread t is
    ch,         \* ch[t]: the channel argument of the call thread t is in
    panic,      \* the fatal error that terminated the process, or None
    nsent,      \* nsent[p]: uchan_send calls producer p has completed
    nclosed,    \* uchan_close calls the closing thread has completed
    seen,       \* seen[r]: what receiver r's completed receive calls returned,
                \* in program order: channel, *x, result, and whether the
                \* call was uchan_receive2_noblock
    waited,     \* waited[t]: t's current/last receive waited on the condition
    late,       \* late[t]: t's current/last receive began on a closed channel
    sentLog,    \* sentLog[c]: the values enqueued in c, in order      (history)
    recvLog,    \* recvLog[c]: the values dequeued from c, in order    (history)
    closeSnap,  \* closeSnap[c]: the contents of c when it was closed  (history)
    drain,      \* drain[c]: the blocking receives completed on c after its
                \* close, in order                                     (history)
    freed,      \* freed[c]: uchan_free has destroyed and freed channel c
    freeLate,   \* uchan_free was called on a channel already closed  (history)
    indices,    \* uchan_select_noblock: the permuted indices
    iSel,       \* the loop variable i of the select call's current loop
    cs,         \* struct UChanSelect: remaining_threads, selected (the index of
                \* the selected item), mutex (its holder), alive (not yet
                \* destroyed by the return of uchan_select)
    items,      \* items[i]: struct UChanSelectItem: has_value, x, and whether
                \* its thread field was set by pthread_create
    cancel,     \* cancel[h]: a pthread_cancel request for helper h is pending
    selret,     \* what uchan_select returned: index, *x, *has_value, and the
                \* phase it returned from; NoReturn while it has not returned
    lenret,     \* what the last completed uchan_len call returned
    count,      \* struct Countdown.n (atomic_int)
    cdMutex,    \* the thread that holds Countdown.mutex, or None
    cdFreed,    \* countdown_free has destroyed and freed the countdown
    cdBc,       \* cdBc[a]: the adjusting call of thread a found its new value
                \* <= 0 and has the broadcast still to do
    nadj,       \* nadj[a]: adjusting calls thread a has made
    cdInit,     \* the n of countdown_new(n); 0 before the call       (history)
    cdSub,      \* the sum of the amounts subtracted so far           (history)
    cdAdd,      \* the sum of the amounts added so far                (history)
    cdSets,     \* the number of countdown_set calls so far           (history)
    cdLate,     \* cdLate[w]: w's countdown_wait began with count <= 0 (history)
    cdWaited,   \* cdWaited[w]: w's countdown_wait waited on the condition
    cdRet,      \* cdRet[w]: w's countdown_wait has returned          (history)
    cdHit,      \* cdHit[w]: w was blocked in the wait when countdown_free
                \* broadcast                                          (history)
    vq,         \* a VQueue used on its own; cap = 0 before vqueue_new
    vqPlan,     \* the calls the user of vq makes: <<puts, gets, puts, gets>>
    vqStep,     \* the number of vqueue_put and vqueue_get calls made on vq
    vqNput,     \* the number of vqueue_put calls made on vq         (history)
    vqGot,      \* the values the vqueue_get calls on vq returned    (history)
    vqGrows,    \* the number of times vqueue_put grew vq            (history)
    vqShrinks,  \* the number of times vqueue_get shrank vq          (history)
    vqSplit,    \* a grow or shrink of vq copied a wrapped region    (history)
    vqShrinkKinds, \* the branches of line 82 the shrinks of vq took: "linear"
                \* (h <= t), "wrapped" (h > t)                        (history)
    fibCountdown, \* TwoChanArg.countdown of fib.c (atomic_int)
    fibX,       \* fibX[w]: the int x of solver w
    fibGot,     \* the values main of fib.c received from ch_solutions
    fibNtasks,  \* the i of produce_tasks: tasks sent so far
    fibCloses,  \* the uchan_close calls on ch_solutions that closed it
                \*                                                   (history)
    selTies,    \* the channels that were non-empty when uchan_select was
                \* called                                            (history)
    cdGot,      \* the last countdown_get call: what it returned and the
                \* sum of the adjustments made before it             (history)
    cdFin,      \* the last countdown_finished call: what it returned and
                \* the sum of the adjustments made before it         (history)
    rcvX        \* rcvX[r]: the void* x that vqueue_get has read from the
                \* array in the uchan_receive2 call of receiver r

chanVars == <<queue, closed, mutex>>
histVars == <<sentLog, recvLog, closeSnap, drain>>
freeVars == <<freed, freeLate>>
selVars == <<indices, iSel, cs, items, cancel, selret>>
lenVars == <<lenret>>
\* The state outside the channels and the select call.
cdVars == <<count, cdMutex, cdFreed, cdBc, nadj, cdInit, cdSub, cdAdd, cdSets,
            cdLate, cdWaited, cdRet, cdHit>>
vqVars == <<vq, vqPlan, vqStep, vqNput, vqGot, vqGrows, vqShrinks, vqSplit,
            vqShrinkKinds>>
fibVars == <<fibCountdown, fibX, fibGot, fibNtasks, fibCloses>>
selHist == <<selTies>>
cdObs == <<cdGot, cdFin>>
rcvLocals == <<rcvX>>
extVars == <<lenVars, cdVars, vqVars, fibVars, selHist, cdObs, rcvLocals>>
vars == <<queue, closed, mutex, pc, ch, panic, nsent, nclosed, seen,
          waited, late, sentLog, recvLog, closeSnap, drain, freeVars, selVars,
          extVars>>

\* UChanSelect cs = {0} and the item fields uchan_select initialises.
NewSession ==
    [remaining |-> NCh, selected |-> NoItem, mutex |-> None, alive |-> TRUE]
NewItems == [i \in Chans |-> [has_value |-> FALSE, x |-> NULL, created |-> FALSE]]

\* uchan_new for every channel; no thread has started a call.
Init ==
    /\ queue = [c \in Chans |-> vqueue_new]
    /\ closed = [c \in Chans |-> FALSE]
    /\ mutex = [c \in Chans |-> None]
    /\ pc = [t \in Threads |-> "idle"]
    /\ ch = [t \in Threads |-> 0]
    /\ panic = None
    /\ nsent = [p \in Senders |-> 0]
    /\ nclosed = 0
    /\ seen = [r \in Receivers |-> <<>>]
    /\ waited = [t \in Threads |-> FALSE]
    /\ late = [t \in Threads |-> FALSE]
    /\ sentLog = [c \in Chans |-> <<>>]
    /\ recvLog = [c \in Chans |-> <<>>]
    /\ closeSnap = [c \in Chans |-> <<>>]
    /\ drain = [c \in Chans |-> <<>>]
    /\ freed = [c \in Chans |-> FALSE]
    /\ freeLate = FALSE
    /\ indices = <<>>
    /\ iSel = 0
    /\ cs = [NewSession EXCEPT !.alive = FALSE]
    /\ items = NewItems
    /\ cancel = [h \in Helpers |-> FALSE]
    /\ selret = NoReturn
    /\ lenret = [done |-> FALSE, len |-> 0]
    /\ count = 0
    /\ cdInit = 0
    /\ cdMutex = None
    /\ cdFreed = FALSE
    /\ cdBc = [a \in Adjusters |-> FALSE]
    /\ nadj = [a \in Adjusters |-> 0]
    /\ cdSub = 0
    /\ cdAdd = 0
    /\ cdSets = 0
    /\ cdLate = [w \in Waiters |-> FALSE]
    /\ cdWaited = [w \in Waiters |-> FALSE]
    /\ cdRet = [w \in Waiters |-> FALSE]
    /\ cdHit = [w \in Waiters |-> FALSE]
    /\ vq = [cap |-> 0, len |-> 0, head |-> 0, tail |-> 0, data |-> <<>>]
    /\ vqPlan = <<>>
    /\ vqStep = 0
    /\ vqNput = 0
    /\ vqGot = <<>>
    /\ vqGrows = 0
    /\ vqShrinks = 0
    /\ vqSplit = FALSE
    /\ vqShrinkKinds = {}
    /\ fibCountdown = 0
    /\ fibX = [w \in Solvers |-> 0]
    /\ fibGot = <<>>
    /\ fibNtasks = 0
    /\ fibCloses = 0
    /\ selTies = {}
    /\ cdGot = [done |-> FALSE, ret |-> 0, sum |-> 0]
    /\ cdFin = [done |-> FALSE, ret |-> FALSE, sum |-> 0]
    /\ rcvX = [r \in Receivers |-> NULL]

\* panic_if / assert end the process: no thread takes another step.
Running == panic = None

(***************************************************************************)
(* pthread primitives.                                                     *)
(***************************************************************************)
\* pthread_mutex_lock succeeds when nobody holds the mutex.
CanLock(c) == mutex[c] = None

\* pthread_mutex_unlock by a thread that does not hold the mutex is undefined
\* for a default mutex: it fails with EPERM or releases the mutex anyway.
UnlockOutcomes(t, c) == IF mutex[c] = t THEN {"ok"} ELSE {"ok", "eperm"}

MutexAfterUnlock(c, o) == IF o = "ok" THEN [mutex EXCEPT ![c] = None] ELSE mutex

\* panic_if(error != 0, "error %d", error) after the unlock.
PanicAfterUnlock(o) == IF o = "ok" THEN panic ELSE "error 1"

\* pthread_cond_signal in place of the broadcast: one waiting thread leaves.
Signal(f, c) ==
    LET w == {t \in Threads : f[t] = "rcv_waiting" /\ ch[t] = c}
    IN  IF w = {} THEN f
        ELSE [f EXCEPT ![CHOOSE t \in w : TRUE] = "rcv_woken"]

\* pthread_cond_broadcast(&ch->waiting_receivers): every thread in the wait
\* on channel c leaves it (and then has to take the mutex again).
Broadcast(f, c) ==
    [t \in Threads |-> IF f[t] = "rcv_waiting" /\ ch[t] = c
                       THEN "rcv_woken" ELSE f[t]]

(***************************************************************************)
(* uchan_send.                                                             *)
(***************************************************************************)
\* pthread_mutex_lock(&ch->mutex) of uchan_send(c, Payload(p, nsent[p] + 1)).
uchan_send_lock(p, c) ==
    /\ Running
    /\ pc[p] = "idle"
    /\ nsent[p] < MaxSends
    /\ CanLock(c)
    /\ mutex' = [mutex EXCEPT ![c] = p]
    /\ pc' = [pc EXCEPT ![p] = "send_locked"]
    /\ ch' = [ch EXCEPT ![p] = c]
    /\ UNCHANGED <<queue, closed, panic, nsent, nclosed, seen, waited,
                   late, histVars,
                   freeVars, selVars, extVars>>

\* A send without the closed check.
uchan_send_never_panics(c) == FALSE

\* panic_if(ch->closed, "send on closed channel").
uchan_send_panics(c) == closed[c]

\* The queue uchan_send leaves behind.
uchan_send_queue(q, x) == vqueue_put(q, x)

\* panic_if(ch->closed), vqueue_put, broadcast, unlock.
uchan_send_body(p) ==
    LET c == ch[p]
        x == Payload(p, nsent[p] + 1)
    IN  /\ Running
        /\ pc[p] = "send_locked"
        /\ IF uchan_send_panics(c)
           THEN /\ panic' = "send on closed channel"
                /\ UNCHANGED <<queue, mutex, pc, nsent, sentLog>>
           ELSE /\ queue' = [queue EXCEPT ![c] = uchan_send_queue(queue[c], x)]
                /\ sentLog' = [sentLog EXCEPT ![c] = Append(@, x)]
                /\ pc' = [Broadcast(pc, c) EXCEPT ![p] = "idle"]
                /\ nsent' = [nsent EXCEPT ![p] = @ + 1]
                /\ \E o \in UnlockOutcomes(p, c) :
                      /\ mutex' = MutexAfterUnlock(c, o)
                      /\ panic' = PanicAfterUnlock(o)
        /\ UNCHANGED <<closed, ch, nclosed, seen, waited, late, recvLog,
                       closeSnap, drain,
                       freeVars, selVars, extVars>>

(***************************************************************************)
(* uchan_receive2.                                                         *)
(***************************************************************************)
\* pthread_mutex_lock(&ch->mutex) of uchan_receive2(c, &x) by a receiver.
uchan_receive2_lock(r, c) ==
    /\ Running
    /\ r \in Receivers
    /\ pc[r] = "idle"
    /\ Len(seen[r]) < MaxRecvs
    /\ CanLock(c)
    /\ mutex' = [mutex EXCEPT ![c] = r]
    /\ pc' = [pc EXCEPT ![r] = "rcv_locked"]
    /\ ch' = [ch EXCEPT ![r] = c]
    /\ waited' = [waited EXCEPT ![r] = FALSE]
    /\ late' = [late EXCEPT ![r] = closed[c]]
    /\ UNCHANGED <<queue, closed, panic, nsent, nclosed, seen, histVars,
                   freeVars, selVars, extVars>>

\* A wait loop that forgets the closed flag: while (vqueue_empty(q)).
MustWait_ignoring_closed(c) == vqueue_empty(queue[c])

\* The condition of the wait loop: while (vqueue_empty(q) && !closed).
MustWait(c) == vqueue_empty(queue[c]) /\ ~closed[c]

\* A pthread_cancel request for thread t is pending (helpers only).
CancelPending(t) == t \in Helpers /\ cancel[t]

\* pthread_cond_wait: release the mutex and block, in one step.  It is a
\* cancellation point: a thread with a pending request does not block.
uchan_receive2_wait(t) ==
    LET c == ch[t]
    IN  /\ Running
        /\ pc[t] = "rcv_locked"
        /\ MustWait(c)
        /\ ~CancelPending(t)
        /\ pc' = [pc EXCEPT ![t] = "rcv_waiting"]
        /\ mutex' = [mutex EXCEPT ![c] = None]
        /\ waited' = [waited EXCEPT ![t] = TRUE]
        /\ UNCHANGED <<queue, closed, ch, panic, nsent, nclosed, seen,
                       late, histVars,
                       freeVars, selVars, extVars>>

\* pthread_cond_wait may return without a broadcast (a spurious wakeup).
SpuriousWakeup(t) ==
    /\ Running
    /\ pc[t] = "rcv_waiting"
    /\ pc' = [pc EXCEPT ![t] = "rcv_woken"]
    /\ UNCHANGED <<chanVars, ch, panic, nsent, nclosed, seen, waited,
                   late, histVars,
                   freeVars, selVars, extVars>>

\* pthread_cond_wait returns with the mutex held again; back to the loop test.
uchan_receive2_wakeup(t) ==
    LET c == ch[t]
    IN  /\ Running
        /\ pc[t] = "rcv_woken"
        /\ CanLock(c)
        /\ mutex' = [mutex EXCEPT ![c] = t]
        /\ pc' = [pc EXCEPT ![t] = "rcv_locked"]
        /\ UNCHANGED <<queue, closed, ch, panic, nsent, nclosed, seen,
                       waited, late, histVars,
                       freeVars, selVars, extVars>>

\* A receive that reports end-of-stream as soon as the channel is closed.
uchan_receive2_result_no_drain(c) ==
    IF ~vqueue_empty(queue[c]) /\ ~closed[c]
    THEN [ok |-> TRUE, x |-> vqueue_get_value(queue[c]), q |-> vqueue_get(queue[c])]
    ELSE [ok |-> FALSE, x |-> NULL, q |-> queue[c]]

\* A receive that takes has_value from the payload: has_value = (*x != NULL).
uchan_receive2_result_by_payload(c) ==
    IF ~vqueue_empty(queue[c])
    THEN [ok |-> vqueue_get_value(queue[c]) # NULL,
          x |-> vqueue_get_value(queue[c]), q |-> vqueue_get(queue[c])]
    ELSE [ok |-> FALSE, x |-> NULL, q |-> queue[c]]

\* has_value and *x after the loop (and after check_select_continue).
uchan_receive2_result(c) ==
    IF ~vqueue_empty(queue[c])
    THEN [ok |-> TRUE, x |-> vqueue_get_value(queue[c]), q |-> vqueue_get(queue[c])]
    ELSE [ok |-> FALSE, x |-> NULL, q |-> queue[c]]

\* The history of a completed receive of thread t on channel c.
ReceiveHistory(t, c, res) ==
    /\ recvLog' = [recvLog EXCEPT ![c] = IF res.ok THEN Append(@, res.x) ELSE @]
    /\ drain' = [drain EXCEPT ![c] =
                    IF closed[c]
                    THEN Append(@, [who |-> t, x |-> res.x, ok |-> res.ok,
                                    waited |-> waited[t], late |-> late[t]])
                    ELSE @]
    /\ UNCHANGED <<sentLog, closeSnap>>

\* After the loop: the assertion, the dequeue, the unlock, the return.
uchan_receive2_body(r) ==
    LET c == ch[r]
        res == uchan_receive2_result(c)
    IN  /\ Running
        /\ r \in Receivers
        /\ pc[r] = "rcv_locked"
        /\ ~MustWait(c)
        /\ queue' = [queue EXCEPT ![c] = res.q]
        /\ seen' = [seen EXCEPT ![r] = Append(@, [c |-> c, x |-> res.x, ok |-> res.ok, nb |-> FALSE])]
        /\ pc' = [pc EXCEPT ![r] = "idle"]
        /\ ReceiveHistory(r, c, res)
        /\ \E o \in UnlockOutcomes(r, c) :
              /\ mutex' = MutexAfterUnlock(c, o)
              /\ panic' = PanicAfterUnlock(o)
        /\ UNCHANGED <<closed, ch, nsent, nclosed, waited, late,
                       freeVars, selVars, extVars>>

\* uchan_receive2 after the loop in three steps, for the programs in which
\* the channel mutex may be taken from the receiver while it holds it.  First
\* step: the loop condition is false, the assertion, and the read of
\* has_value; the receiver is then at the vqueue_get call ("rcv_get") or at
\* *x = NULL ("rcv_null").
uchan_receive2_has_value(r) ==
    LET c == ch[r]
    IN  /\ Running
        /\ r \in Receivers
        /\ pc[r] = "rcv_locked"
        /\ ~MustWait(c)
        /\ IF closed[c] \/ ~vqueue_empty(queue[c])
           THEN /\ pc' = [pc EXCEPT ![r] = IF ~vqueue_empty(queue[c])
                                           THEN "rcv_get" ELSE "rcv_null"]
                /\ UNCHANGED panic
           ELSE /\ panic' = "assertion failed: not closed implies queue not empty"
                /\ UNCHANGED pc
        /\ UNCHANGED <<chanVars, ch, nsent, nclosed, seen, waited, late,
                       histVars, freeVars, selVars, extVars>>

\* Second step, at the vqueue_get call: require("not empty", ...) and
\* void* x = q->data[q->head].
uchan_receive2_get(r) ==
    LET c == ch[r]
    IN  /\ Running
        /\ r \in Receivers
        /\ pc[r] = "rcv_get"
        /\ IF vqueue_empty(queue[c])
           THEN /\ panic' = "not empty"
                /\ UNCHANGED <<pc, rcvX>>
           ELSE /\ rcvX' = [rcvX EXCEPT ![r] = vqueue_get_value(queue[c])]
                /\ pc' = [pc EXCEPT ![r] = "rcv_got"]
                /\ UNCHANGED panic
        /\ UNCHANGED <<chanVars, ch, nsent, nclosed, seen, waited, late,
                       histVars, freeVars, selVars, lenVars, cdVars, vqVars,
                       fibVars, selHist, cdObs>>

\* Third step: the rest of vqueue_get (q->len--, the head update, the
\* shrink) with *x = x, or *x = NULL; the unlock; the return.
uchan_receive2_return(r) ==
    LET c == ch[r]
        res == IF pc[r] = "rcv_got"
               THEN [ok |-> TRUE, x |-> rcvX[r], q |-> vqueue_get(queue[c])]
               ELSE [ok |-> FALSE, x |-> NULL, q |-> queue[c]]
    IN  /\ Running
        /\ r \in Receivers
        /\ pc[r] \in {"rcv_got", "rcv_null"}
        /\ queue' = [queue EXCEPT ![c] = res.q]
        /\ seen' = [seen EXCEPT ![r] = Append(@, [c |-> c, x |-> res.x, ok |-> res.ok, nb |-> FALSE])]
        /\ rcvX' = [rcvX EXCEPT ![r] = NULL]
        /\ pc' = [pc EXCEPT ![r] = "idle"]
        /\ ReceiveHistory(r, c, res)
        /\ \E o \in UnlockOutcomes(r, c) :
              /\ mutex' = MutexAfterUnlock(c, o)
              /\ panic' = PanicAfterUnlock(o)
        /\ UNCHANGED <<closed, ch, nsent, nclosed, waited, late,
                       freeVars, selVars, lenVars, cdVars, vqVars, fibVars,
                       selHist, cdObs>>

(***************************************************************************)
(* uchan_close.                                                            *)
(***************************************************************************)
\* pthread_mutex_lock(&ch->mutex) of uchan_close(c), called by the closing
\* thread or from uchan_free.
uchan_close_lock(t, c) ==
    /\ Running
    /\ \/ t = Closer /\ pc[t] = "idle" /\ nclosed < MaxCloses
       \/ t = Freer /\ pc[t] = "free_close" /\ c = ch[t]
    /\ CanLock(c)
    /\ mutex' = [mutex EXCEPT ![c] = t]
    /\ pc' = [pc EXCEPT ![t] = "close_locked"]
    /\ ch' = [ch EXCEPT ![t] = c]
    /\ UNCHANGED <<queue, closed, panic, nsent, nclosed, seen, waited,
                   late, histVars,
                   freeVars, selVars, extVars>>

\* A close without the closed check (an idempotent close).
uchan_close_never_panics(c) == FALSE

\* panic_if(ch->closed, "close of closed channel").
uchan_close_panics(c) == closed[c]

\* The flag uchan_close stores.
uchan_close_flag(old) == TRUE

\* panic_if(ch->closed), closed = true, broadcast, unlock.
uchan_close_body(t) ==
    LET c == ch[t]
    IN  /\ Running
        /\ pc[t] = "close_locked"
        /\ IF uchan_close_panics(c)
           THEN /\ panic' = "close of closed channel"
                /\ UNCHANGED <<closed, mutex, pc, nclosed, closeSnap>>
           ELSE /\ closed' = [closed EXCEPT ![c] = uchan_close_flag(@)]
                /\ closeSnap' = [closeSnap EXCEPT ![c] = Contents(queue[c])]
                /\ pc' = [Broadcast(pc, c) EXCEPT
                             ![t] = IF t = Freer THEN "free_destroy" ELSE "idle"]
                /\ nclosed' = IF t = Closer THEN nclosed + 1 ELSE nclosed
                /\ \E o \in UnlockOutcomes(t, c) :
                      /\ mutex' = MutexAfterUnlock(c, o)
                      /\ panic' = PanicAfterUnlock(o)
        /\ UNCHANGED <<queue, ch, nsent, seen, waited, late, sentLog,
                       recvLog, drain,
                       freeVars, selVars, extVars>>

(***************************************************************************)
(* uchan_free.                                                             *)
(***************************************************************************)
\* The owner of channel c calls uchan_free(c), once.
uchan_free_call(t, c) ==
    /\ Running
    /\ t = Freer
    /\ pc[t] = "idle"
    /\ ~freed[c]
    /\ pc' = [pc EXCEPT ![t] = "free_check"]
    /\ ch' = [ch EXCEPT ![t] = c]
    /\ freeLate' = closed[c]
    /\ UNCHANGED <<chanVars, panic, nsent, nclosed, seen, waited, late,
                   histVars, freed, selVars, extVars>>

\* A uchan_free that closes whatever the flag says.
uchan_free_always_closes(c) == TRUE

\* if (!ch->closed): read without the mutex.
uchan_free_closes(c) == ~closed[c]

uchan_free_check(t) ==
    /\ Running
    /\ pc[t] = "free_check"
    /\ pc' = [pc EXCEPT ![t] = IF uchan_free_closes(ch[t])
                               THEN "free_close" ELSE "free_destroy"]
    /\ UNCHANGED <<chanVars, ch, panic, nsent, nclosed, seen, waited, late,
                   histVars, freeVars, selVars, extVars>>

\* pthread_mutex_destroy of a mutex that is held fails with EBUSY or
\* destroys it all the same (undefined).
DestroyOutcomes(c) == IF mutex[c] = None THEN {"ok"} ELSE {"ok", "ebusy"}

\* pthread_cond_destroy, pthread_mutex_destroy, vqueue_free, free(ch).
uchan_free_destroy(t) ==
    LET c == ch[t]
    IN  /\ Running
        /\ pc[t] = "free_destroy"
        /\ \E o \in DestroyOutcomes(c) :
              IF o = "ok"
              THEN /\ freed' = [freed EXCEPT ![c] = TRUE]
                   /\ pc' = [pc EXCEPT ![t] = "freed"]
                   /\ panic' = panic
              ELSE /\ panic' = "error 16"
                   /\ UNCHANGED <<freed, pc>>
        /\ UNCHANGED <<chanVars, ch, nsent, nclosed, seen, waited, late,
                       histVars, freeLate, selVars, extVars>>

\* Thread t is inside a channel call on channel c.
InCall(t, c) ==
    /\ ch[t] = c
    /\ pc[t] \in {"send_locked", "rcv_locked", "rcv_waiting", "rcv_woken",
                  "close_locked"}

\* A thread inside a call on a channel that was freed uses freed memory
\* (undefined): it goes on with what the memory still holds (the other
\* actions), or the process crashes (this one).
UseAfterFree(t) ==
    /\ Running
    /\ \E c \in Chans : freed[c] /\ InCall(t, c)
    /\ panic' = "use after free"
    /\ UNCHANGED <<chanVars, pc, ch, nsent, nclosed, seen, waited, late,
                   histVars, freeVars, selVars, extVars>>

(***************************************************************************)
(* uchan_select, phase A: uchan_select_noblock.  channels[i] is channel i.  *)
(***************************************************************************)
\* permute_indices: any permutation of 0 .. n-1 (indices[] is 1-based here).
permute_indices ==
    {f \in [1 .. NCh -> Chans] : \A i, j \in 1 .. NCh : i # j => f[i] # f[j]}

\* uchan_select is called (once): the indices are permuted.
uchan_select_call ==
    /\ Running
    /\ pc[Sel] = "idle"
    /\ selret = NoReturn
    /\ \E f \in permute_indices : indices' = f
    /\ iSel' = 0
    /\ pc' = [pc EXCEPT ![Sel] = "selA_lock"]
    /\ selTies' = {c \in Chans : ~vqueue_empty(queue[c])}
    /\ UNCHANGED <<chanVars, ch, panic, nsent, nclosed, seen, waited, late,
                   histVars, freeVars, cs, items, cancel, selret, lenVars,
                   cdVars, vqVars, fibVars, cdObs, rcvLocals>>

\* A phase A that tries the candidates in array order: channels[i].
uchan_receive2_noblock_lock_in_order ==
    LET c == iSel
    IN  /\ Running
        /\ pc[Sel] = "selA_lock"
        /\ CanLock(c)
        /\ mutex' = [mutex EXCEPT ![c] = Sel]
        /\ pc' = [pc EXCEPT ![Sel] = "selA_locked"]
        /\ ch' = [ch EXCEPT ![Sel] = c]
        /\ UNCHANGED <<queue, closed, panic, nsent, nclosed, seen, waited,
                       late, histVars, freeVars, selVars, extVars>>

\* pthread_mutex_lock of uchan_receive2_noblock(channels[indices[i]], x).
uchan_receive2_noblock_lock ==
    LET c == indices[iSel + 1]
    IN  /\ Running
        /\ pc[Sel] = "selA_lock"
        /\ CanLock(c)
        /\ mutex' = [mutex EXCEPT ![c] = Sel]
        /\ pc' = [pc EXCEPT ![Sel] = "selA_locked"]
        /\ ch' = [ch EXCEPT ![Sel] = c]
        /\ UNCHANGED <<queue, closed, panic, nsent, nclosed, seen, waited,
                       late, histVars, freeVars, selVars, extVars>>

\* A non-blocking receive that returns the head and leaves it in the queue.
uchan_receive2_noblock_result_peek(c) ==
    IF ~vqueue_empty(queue[c])
    THEN [ok |-> TRUE, x |-> vqueue_get_value(queue[c]), q |-> queue[c]]
    ELSE [ok |-> FALSE, x |-> NULL, q |-> queue[c]]

\* A non-blocking receive that reports a closed, empty channel as ready.
uchan_receive2_noblock_result_closed_ready(c) ==
    IF ~vqueue_empty(queue[c])
    THEN [ok |-> TRUE, x |-> vqueue_get_value(queue[c]), q |-> vqueue_get(queue[c])]
    ELSE [ok |-> closed[c], x |-> NULL, q |-> queue[c]]

\* has_value and *x of uchan_receive2_noblock.
uchan_receive2_noblock_result(c) ==
    IF ~vqueue_empty(queue[c])
    THEN [ok |-> TRUE, x |-> vqueue_get_value(queue[c]), q |-> vqueue_get(queue[c])]
    ELSE [ok |-> FALSE, x |-> NULL, q |-> queue[c]]

\* if (ok) return i;
uchan_select_noblock_return(i) == i

\* The rest of uchan_receive2_noblock and of the loop iteration: return on a
\* value; otherwise the next candidate; after the last one, the setup of the
\* session and of the items (phase B).
uchan_select_noblock_step ==
    LET c == ch[Sel]
        res == uchan_receive2_noblock_result(c)
    IN  /\ Running
        /\ pc[Sel] = "selA_locked"
        /\ queue' = [queue EXCEPT ![c] = res.q]
        /\ recvLog' = [recvLog EXCEPT ![c] = IF res.ok THEN Append(@, res.x) ELSE @]
        /\ \E o \in UnlockOutcomes(Sel, c) :
              /\ mutex' = MutexAfterUnlock(c, o)
              /\ panic' = PanicAfterUnlock(o)
        /\ IF res.ok
           THEN /\ selret' = [idx |-> uchan_select_noblock_return(iSel), x |-> res.x,
                              ok |-> TRUE, phase |-> "A"]
                /\ pc' = [pc EXCEPT ![Sel] = "sel_done"]
                /\ UNCHANGED <<iSel, cs, items>>
           ELSE IF iSel + 1 < NCh
           THEN /\ iSel' = iSel + 1
                /\ pc' = [pc EXCEPT ![Sel] = "selA_lock"]
                /\ UNCHANGED <<selret, cs, items>>
           ELSE /\ iSel' = 0
                /\ cs' = NewSession
                /\ items' = NewItems
                /\ pc' = [pc EXCEPT ![Sel] = "selB_create"]
                /\ UNCHANGED selret
        /\ UNCHANGED <<closed, ch, nsent, nclosed, seen, waited, late, sentLog,
                       closeSnap, drain, freeVars, indices, cancel, extVars>>

(***************************************************************************)
(* uchan_select, phase B: the caller.                                      *)
(***************************************************************************)
\* pthread_create(&item->thread, NULL, select_thread_func, item) for items[i].
uchan_select_create ==
    /\ Running
    /\ pc[Sel] = "selB_create"
    /\ items' = [items EXCEPT ![iSel].created = TRUE]
    /\ iSel' = iSel + 1
    /\ pc' = [pc EXCEPT ![Helper(iSel)] = "h_start",
                        ![Sel] = IF iSel + 1 < NCh THEN "selB_create" ELSE "selB_lock"]
    /\ UNCHANGED <<chanVars, ch, panic, nsent, nclosed, seen, waited, late,
                   histVars, freeVars, indices, cs, cancel, selret, extVars>>

\* pthread_mutex_lock(&cs.mutex).
uchan_select_lock ==
    /\ Running
    /\ pc[Sel] = "selB_lock"
    /\ cs.mutex = None
    /\ cs' = [cs EXCEPT !.mutex = Sel]
    /\ pc' = [pc EXCEPT ![Sel] = "selB_locked"]
    /\ UNCHANGED <<chanVars, ch, panic, nsent, nclosed, seen, waited, late,
                   histVars, freeVars, indices, iSel, items, cancel, selret, extVars>>

\* pthread_cond_wait(&cs.cond, &cs.mutex): release the mutex and block.
uchan_select_wait ==
    /\ Running
    /\ pc[Sel] = "selB_locked"
    /\ cs' = [cs EXCEPT !.mutex = None]
    /\ pc' = [pc EXCEPT ![Sel] = "sel_waiting"]
    /\ UNCHANGED <<chanVars, ch, panic, nsent, nclosed, seen, waited, late,
                   histVars, freeVars, indices, iSel, items, cancel, selret, extVars>>

\* pthread_cond_wait may return without a signal (a spurious wakeup).
SelectSpuriousWakeup ==
    /\ Running
    /\ pc[Sel] = "sel_waiting"
    /\ pc' = [pc EXCEPT ![Sel] = "sel_woken"]
    /\ UNCHANGED <<chanVars, ch, panic, nsent, nclosed, seen, waited, late,
                   histVars, freeVars, selVars, extVars>>

\* pthread_cond_wait returns with cs.mutex held again.
uchan_select_wakeup ==
    /\ Running
    /\ pc[Sel] = "sel_woken"
    /\ cs.mutex = None
    /\ cs' = [cs EXCEPT !.mutex = Sel]
    /\ pc' = [pc EXCEPT ![Sel] = "selB_resume"]
    /\ UNCHANGED <<chanVars, ch, panic, nsent, nclosed, seen, waited, late,
                   histVars, freeVars, indices, iSel, items, cancel, selret, extVars>>

\* assert("selection done", cs.selected != NULL).
uchan_select_asserts == cs.selected # NoItem

\* What uchan_select returns from the selected item.
uchan_select_result ==
    [idx |-> cs.selected, x |-> items[cs.selected].x,
     ok |-> items[cs.selected].has_value, phase |-> "B"]

\* After the wait: the assertion, the copy of the selected item's result, the
\* unlock, the destruction of the session's condition and mutex, the return.
uchan_select_return ==
    /\ Running
    /\ pc[Sel] = "selB_resume"
    /\ IF uchan_select_asserts
       THEN /\ selret' = uchan_select_result
            /\ cs' = [cs EXCEPT !.mutex = None, !.alive = FALSE]
            /\ pc' = [pc EXCEPT ![Sel] = "sel_done"]
            /\ panic' = panic
       ELSE /\ panic' = "assertion failed: selection done"
            /\ UNCHANGED <<selret, cs, pc>>
    /\ UNCHANGED <<chanVars, ch, nsent, nclosed, seen, waited, late,
                   histVars, freeVars, indices, iSel, items, cancel, extVars>>

(***************************************************************************)
(* uchan_select, phase B: the helper threads (select_thread_func).         *)
(***************************************************************************)
\* pthread_setspecific, pthread_cleanup_push, and the pthread_mutex_lock of
\* uchan_receive2(item->ch, &item->x).
select_thread_func_lock(h) ==
    LET c == HelperIndex(h)
    IN  /\ Running
        /\ pc[h] = "h_start"
        /\ CanLock(c)
        /\ mutex' = [mutex EXCEPT ![c] = h]
        /\ pc' = [pc EXCEPT ![h] = "rcv_locked"]
        /\ ch' = [ch EXCEPT ![h] = c]
        /\ waited' = [waited EXCEPT ![h] = FALSE]
        /\ late' = [late EXCEPT ![h] = closed[c]]
        /\ UNCHANGED <<queue, closed, panic, nsent, nclosed, seen, histVars,
                       freeVars, selVars, extVars>>

\* A cancellation request is acted upon when the helper reaches
\* pthread_cond_wait: it does not block, and its cleanup handler runs with
\* the channel mutex held.
select_thread_cancel_at_wait(h) ==
    /\ Running
    /\ h \in Helpers
    /\ pc[h] = "rcv_locked"
    /\ MustWait(ch[h])
    /\ cancel[h]
    /\ pc' = [pc EXCEPT ![h] = "h_cleanup"]
    /\ UNCHANGED <<chanVars, ch, panic, nsent, nclosed, seen, waited, late,
                   histVars, freeVars, selVars, extVars>>

\* A cancellation request is acted upon while the helper is blocked in
\* pthread_cond_wait: the wait ends and the mutex has to be taken again.
select_thread_cancel_in_wait(h) ==
    /\ Running
    /\ h \in Helpers
    /\ pc[h] \in {"rcv_waiting", "rcv_woken"}
    /\ cancel[h]
    /\ pc' = [pc EXCEPT ![h] = "h_cancelled"]
    /\ UNCHANGED <<chanVars, ch, panic, nsent, nclosed, seen, waited, late,
                   histVars, freeVars, selVars, extVars>>

\* The cancelled wait re-acquires the channel mutex before the cleanup
\* handler runs.
select_thread_cancel_reacquire(h) ==
    LET c == ch[h]
    IN  /\ Running
        /\ pc[h] = "h_cancelled"
        /\ CanLock(c)
        /\ mutex' = [mutex EXCEPT ![c] = h]
        /\ pc' = [pc EXCEPT ![h] = "h_cleanup"]
        /\ UNCHANGED <<queue, closed, ch, panic, nsent, nclosed, seen, waited,
                       late, histVars, freeVars, selVars, extVars>>

\* A pthread_mutex_lock(&cs->mutex) that is a cancellation point: a helper
\* with a pending request is cancelled there, its channel mutex held.
check_select_continue_lock_cancellable(h) ==
    /\ Running
    /\ h \in Helpers
    /\ pc[h] = "rcv_locked"
    /\ ~MustWait(ch[h])
    /\ IF cancel[h]
       THEN /\ pc' = [pc EXCEPT ![h] = "h_cleanup"]
            /\ UNCHANGED cs
       ELSE /\ cs.mutex = None
            /\ cs' = [cs EXCEPT !.mutex = h]
            /\ pc' = [pc EXCEPT ![h] = "csc_locked"]
    /\ UNCHANGED <<chanVars, ch, panic, nsent, nclosed, seen, waited, late,
                   histVars, freeVars, indices, iSel, items, cancel, selret, extVars>>

\* After the wait loop of uchan_receive2: pthread_getspecific finds the item,
\* and check_select_continue locks cs->mutex (the channel mutex is held).
check_select_continue_lock(h) ==
    /\ Running
    /\ h \in Helpers
    /\ pc[h] = "rcv_locked"
    /\ ~MustWait(ch[h])
    /\ cs.mutex = None
    /\ cs' = [cs EXCEPT !.mutex = h]
    /\ pc' = [pc EXCEPT ![h] = "csc_locked"]
    /\ UNCHANGED <<chanVars, ch, panic, nsent, nclosed, seen, waited, late,
                   histVars, freeVars, indices, iSel, items, cancel, selret, extVars>>

\* pthread_cancel(item->thread) on a thread field that pthread_create has not
\* set yet reads an uninitialised pthread_t (undefined): the request is lost,
\* or the process crashes.
CancelOutcomes(i) ==
    IF \E j \in Chans : j # i /\ ~items[j].created
    THEN {"lost", "crash"} ELSE {"ok"}

\* if (cs->selected == NULL)
check_select_continue_selects == cs.selected = NoItem

\* The critical section of check_select_continue: the first helper becomes
\* the selected one and cancels the others; any other helper leaves by
\* pthread_exit, which runs its cleanup handler.
check_select_continue_body(h) ==
    LET i == HelperIndex(h)
    IN  /\ Running
        /\ pc[h] = "csc_locked"
        /\ IF check_select_continue_selects
           THEN /\ cs' = [cs EXCEPT !.selected = i, !.mutex = None]
                /\ cancel' = [g \in Helpers |->
                                 cancel[g] \/ (g # h /\ items[HelperIndex(g)].created)]
                /\ \E o \in CancelOutcomes(i) :
                      panic' = IF o = "crash" THEN "pthread_cancel: invalid thread"
                               ELSE panic
                /\ pc' = [pc EXCEPT ![h] = "h_won"]
           ELSE /\ cs' = [cs EXCEPT !.mutex = None]
                /\ pc' = [pc EXCEPT ![h] = "h_cleanup"]
                /\ UNCHANGED <<cancel, panic>>
        /\ UNCHANGED <<chanVars, ch, nsent, nclosed, seen, waited, late,
                       histVars, freeVars, indices, iSel, items, selret, extVars>>

\* assert("not closed implies queue not empty", ...) in uchan_receive2.
uchan_receive2_asserts(c) == closed[c] \/ ~vqueue_empty(queue[c])

\* The selected helper completes uchan_receive2 (assertion, dequeue, unlock)
\* and stores the result in its item.
select_thread_receive(h) ==
    LET c == ch[h]
        res == uchan_receive2_result(c)
    IN  /\ Running
        /\ pc[h] = "h_won"
        /\ IF uchan_receive2_asserts(c)
           THEN /\ queue' = [queue EXCEPT ![c] = res.q]
                /\ ReceiveHistory(h, c, res)
                /\ items' = [items EXCEPT ![HelperIndex(h)].has_value = res.ok,
                                          ![HelperIndex(h)].x = res.x]
                /\ pc' = [pc EXCEPT ![h] = "h_cleanup"]
                /\ \E o \in UnlockOutcomes(h, c) :
                      /\ mutex' = MutexAfterUnlock(c, o)
                      /\ panic' = PanicAfterUnlock(o)
           ELSE /\ panic' = "assertion failed: not closed implies queue not empty"
                /\ UNCHANGED <<queue, histVars, items, pc, mutex>>
        /\ UNCHANGED <<closed, ch, nsent, nclosed, seen, waited, late,
                       freeVars, indices, iSel, cs, cancel, selret, extVars>>

\* select_thread_cleanup, first half: pthread_mutex_unlock(&item->ch->mutex).
\* It runs on every way out: after a cancellation or pthread_exit (the mutex
\* is held) and by pthread_cleanup_pop(1) after uchan_receive2 has returned
\* (the mutex was already unlocked).
select_thread_cleanup(h) ==
    LET c == ch[h]
    IN  /\ Running
        /\ pc[h] = "h_cleanup"
        /\ pc' = [pc EXCEPT ![h] = "h_signal"]
        /\ \E o \in UnlockOutcomes(h, c) :
              /\ mutex' = MutexAfterUnlock(c, o)
              /\ panic' = PanicAfterUnlock(o)
        /\ UNCHANGED <<queue, closed, ch, nsent, nclosed, seen, waited, late,
                       histVars, freeVars, selVars, extVars>>

\* if (n <= 1) pthread_cond_signal(&cs->cond);
signal_if_last_signals(n) == n <= 1

\* signal_if_last_select_thread: atomic_fetch_sub, and the signal, which
\* wakes the caller only if it is in its wait at this moment.
signal_if_last_select_thread(h) ==
    LET n == cs.remaining
    IN  /\ Running
        /\ pc[h] = "h_signal"
        /\ cs' = [cs EXCEPT !.remaining = n - 1]
        /\ pc' = [pc EXCEPT ![h] = "h_done",
                            ![Sel] = IF signal_if_last_signals(n) /\ pc[Sel] = "sel_waiting"
                                     THEN "sel_woken" ELSE @]
        /\ UNCHANGED <<chanVars, ch, panic, nsent, nclosed, seen, waited, late,
                       histVars, freeVars, indices, iSel, items, cancel, selret, extVars>>

\* Helper h is at a step that reads or writes the session or its item.
UsesSession(h) ==
    \/ pc[h] \in {"csc_locked", "h_won", "h_cleanup", "h_signal"}
    \/ pc[h] = "rcv_locked" /\ ~MustWait(ch[h])

\* The session and the items live in uchan_select's stack frame: a helper that
\* uses them after uchan_select has returned uses dead memory (undefined): it
\* goes on with what the memory still holds (the other actions), or the
\* process crashes (this one).
UseAfterReturn(h) ==
    /\ Running
    /\ selret.phase = "B"
    /\ UsesSession(h)
    /\ panic' = "use after return"
    /\ UNCHANGED <<chanVars, pc, ch, nsent, nclosed, seen, waited, late,
                   histVars, freeVars, selVars, extVars>>

(***************************************************************************)
(* uchan_len and uchan_receive2_noblock, called by a thread of the program.*)
(***************************************************************************)
\* pthread_mutex_lock(&ch->mutex) of uchan_len(c); one call is modelled.
uchan_len_lock(t, c) ==
    /\ Running
    /\ pc[t] = "idle"
    /\ ~lenret.done
    /\ CanLock(c)
    /\ mutex' = [mutex EXCEPT ![c] = t]
    /\ pc' = [pc EXCEPT ![t] = "len_locked"]
    /\ ch' = [ch EXCEPT ![t] = c]
    /\ UNCHANGED <<queue, closed, panic, nsent, nclosed, seen, waited, late,
                   histVars, freeVars, selVars, lenret, cdVars, vqVars, fibVars,
                   selHist, cdObs, rcvLocals>>

\* A uchan_len that clears the closed flag on its way out.
uchan_len_body_reopening(t) ==
    LET c == ch[t]
    IN  /\ Running
        /\ pc[t] = "len_locked"
        /\ lenret' = [done |-> TRUE, len |-> vqueue_len(queue[c])]
        /\ closed' = [closed EXCEPT ![c] = FALSE]
        /\ pc' = [pc EXCEPT ![t] = "idle"]
        /\ \E o \in UnlockOutcomes(t, c) :
              /\ mutex' = MutexAfterUnlock(c, o)
              /\ panic' = PanicAfterUnlock(o)
        /\ UNCHANGED <<queue, ch, nsent, nclosed, seen, waited, late,
                       histVars, freeVars, selVars, cdVars, vqVars, fibVars,
                       selHist, cdObs, rcvLocals>>

\* int len = vqueue_len(ch->queue); unlock; return len.
uchan_len_body(t) ==
    LET c == ch[t]
    IN  /\ Running
        /\ pc[t] = "len_locked"
        /\ lenret' = [done |-> TRUE, len |-> vqueue_len(queue[c])]
        /\ pc' = [pc EXCEPT ![t] = "idle"]
        /\ \E o \in UnlockOutcomes(t, c) :
              /\ mutex' = MutexAfterUnlock(c, o)
              /\ panic' = PanicAfterUnlock(o)
        /\ UNCHANGED <<queue, closed, ch, nsent, nclosed, seen, waited, late,
                       histVars, freeVars, selVars, cdVars, vqVars, fibVars,
                       selHist, cdObs, rcvLocals>>

\* pthread_mutex_lock(&ch->mutex) of uchan_receive2_noblock(c, &x), called by
\* receiver r.
uchan_receive2_noblock_call(r, c) ==
    /\ Running
    /\ r \in Receivers
    /\ pc[r] = "idle"
    /\ Len(seen[r]) < MaxRecvs
    /\ CanLock(c)
    /\ mutex' = [mutex EXCEPT ![c] = r]
    /\ pc' = [pc EXCEPT ![r] = "nb_locked"]
    /\ ch' = [ch EXCEPT ![r] = c]
    /\ late' = [late EXCEPT ![r] = closed[c]]
    /\ UNCHANGED <<queue, closed, panic, nsent, nclosed, seen, waited,
                   histVars, freeVars, selVars, extVars>>

\* The rest of uchan_receive2_noblock: has_value, the dequeue or NULL, the
\* unlock, the return.
uchan_receive2_noblock_body(r) ==
    LET c == ch[r]
        res == uchan_receive2_noblock_result(c)
    IN  /\ Running
        /\ pc[r] = "nb_locked"
        /\ queue' = [queue EXCEPT ![c] = res.q]
        /\ recvLog' = [recvLog EXCEPT ![c] = IF res.ok THEN Append(@, res.x) ELSE @]
        /\ seen' = [seen EXCEPT ![r] = Append(@, [c |-> c, x |-> res.x, ok |-> res.ok, nb |-> TRUE])]
        /\ pc' = [pc EXCEPT ![r] = "idle"]
        /\ \E o \in UnlockOutcomes(r, c) :
              /\ mutex' = MutexAfterUnlock(c, o)
              /\ panic' = PanicAfterUnlock(o)
        /\ UNCHANGED <<closed, ch, nsent, nclosed, waited, late, sentLog,
                       closeSnap, drain, freeVars, selVars, extVars>>

(***************************************************************************)
(* countdown.c.  The count is an atomic_int; the adjusting calls change it *)
(* atomically and broadcast without holding the mutex.                     *)
(***************************************************************************)
\* Everything but the countdown.
uchanCore == <<queue, closed, mutex, ch, nsent, nclosed, seen, waited, late,
               histVars, freeVars, selVars, lenVars, vqVars, fibVars, selHist,
               rcvLocals>>
uchanVars == <<uchanCore, cdObs>>

\* countdown_new(n): require("positive", n > 0), atomic_store(&c->n, n).
countdown_new(n) ==
    /\ Running
    /\ cdInit = 0
    /\ n > 0
    /\ count' = n
    /\ cdInit' = n
    /\ UNCHANGED <<uchanVars, pc, panic, cdMutex, cdFreed, cdBc, nadj, cdSub,
                   cdAdd, cdSets, cdLate, cdWaited, cdRet, cdHit>>

\* The countdown exists and thread a may make another adjusting call.
CanAdjust(a) ==
    /\ Running
    /\ cdInit > 0
    /\ ~cdFreed
    /\ pc[a] = "idle"
    /\ nadj[a] < MaxAdjust

\* An adjusting call that would stop at zero instead of going below it.
AdjustByFloor(a, d) ==
    /\ count' = IF count + d < 0 THEN 0 ELSE count + d
    /\ cdBc' = [cdBc EXCEPT ![a] = count + d <= 0]
    /\ pc' = [pc EXCEPT ![a] = "cd_bcast"]
    /\ nadj' = [nadj EXCEPT ![a] = @ + 1]
    /\ cdAdd' = IF d > 0 THEN cdAdd + d ELSE cdAdd
    /\ cdSub' = IF d < 0 THEN cdSub - d ELSE cdSub
    /\ UNCHANGED <<uchanVars, panic, cdMutex, cdFreed, cdInit, cdSets, cdLate,
                   cdWaited, cdRet, cdHit>>

\* The atomic step of an adjusting call that changes the count by d: the new
\* value, and the decision to broadcast taken from it.
AdjustBy(a, d) ==
    /\ count' = count + d
    /\ cdBc' = [cdBc EXCEPT ![a] = count + d <= 0]
    /\ pc' = [pc EXCEPT ![a] = "cd_bcast"]
    /\ nadj' = [nadj EXCEPT ![a] = @ + 1]
    /\ cdAdd' = IF d > 0 THEN cdAdd + d ELSE cdAdd
    /\ cdSub' = IF d < 0 THEN cdSub - d ELSE cdSub
    /\ UNCHANGED <<uchanVars, panic, cdMutex, cdFreed, cdInit, cdSets, cdLate,
                   cdWaited, cdRet, cdHit>>

\* int n = atomic_fetch_add(&c->n, i); if (n + i <= 0) ...
countdown_add(a, i) == CanAdjust(a) /\ AdjustBy(a, i)

\* int n = atomic_fetch_add(&c->n, 1); if (n + 1 <= 0) ...
countdown_inc(a) == CanAdjust(a) /\ AdjustBy(a, 1)

\* int n = atomic_fetch_sub(&c->n, i); if (n - i <= 0) ...
countdown_sub(a, i) == CanAdjust(a) /\ AdjustBy(a, -i)

\* int n = atomic_fetch_sub(&c->n, 1); if (n - 1 <= 0) ...
countdown_dec(a) == CanAdjust(a) /\ AdjustBy(a, -1)

\* atomic_store(&c->n, i); if (i <= 0) ...
countdown_set(a, i) ==
    /\ CanAdjust(a)
    /\ count' = i
    /\ cdBc' = [cdBc EXCEPT ![a] = i <= 0]
    /\ pc' = [pc EXCEPT ![a] = "cd_bcast"]
    /\ nadj' = [nadj EXCEPT ![a] = @ + 1]
    /\ cdSets' = cdSets + 1
    /\ UNCHANGED <<uchanVars, panic, cdMutex, cdFreed, cdInit, cdSub, cdAdd,
                   cdLate, cdWaited, cdRet, cdHit>>

\* int countdown_get(Countdown* c): return atomic_load(&c->n).
countdown_get == count

\* bool countdown_finished(Countdown* c): return atomic_load(&c->n) <= 0.
countdown_finished == count <= 0

\* A thread may read the countdown: it exists and has not been freed.
CanObserve ==
    /\ Running
    /\ cdInit > 0
    /\ ~cdFreed

\* A call of countdown_get; the atomic load is its only step.
countdown_get_call ==
    /\ CanObserve
    /\ cdGot' = [done |-> TRUE, ret |-> countdown_get, sum |-> cdAdd - cdSub]
    /\ UNCHANGED <<uchanCore, pc, panic, cdVars, cdFin>>

\* A call of countdown_finished; the atomic load is its only step.
countdown_finished_call ==
    /\ CanObserve
    /\ cdFin' = [done |-> TRUE, ret |-> countdown_finished,
                 sum |-> cdAdd - cdSub]
    /\ UNCHANGED <<uchanCore, pc, panic, cdVars, cdGot>>

\* pthread_cond_broadcast(&c->cond): every thread blocked in the wait of
\* countdown_wait becomes runnable.
CdBroadcast(f) ==
    [t \in DOMAIN f |-> IF t \in Waiters /\ f[t] = "cw_waiting" THEN "cw_woken" ELSE f[t]]

\* The second step of an adjusting call: the broadcast, if it was decided,
\* and the return.
countdown_broadcast(a) ==
    /\ Running
    /\ pc[a] = "cd_bcast"
    /\ pc' = [(IF cdBc[a] THEN CdBroadcast(pc) ELSE pc) EXCEPT ![a] = "idle"]
    /\ cdBc' = [cdBc EXCEPT ![a] = FALSE]
    /\ UNCHANGED <<uchanVars, panic, count, cdMutex, cdFreed, nadj, cdInit,
                   cdSub, cdAdd, cdSets, cdLate, cdWaited, cdRet, cdHit>>

\* pthread_mutex_lock(&c->mutex) of countdown_wait; one call per waiter.
countdown_wait_lock(w) ==
    /\ Running
    /\ cdInit > 0
    /\ ~cdFreed
    /\ pc[w] = "idle"
    /\ ~cdRet[w]
    /\ cdMutex = None
    /\ cdMutex' = w
    /\ pc' = [pc EXCEPT ![w] = "cw_locked"]
    /\ cdLate' = [cdLate EXCEPT ![w] = count <= 0]
    /\ cdWaited' = [cdWaited EXCEPT ![w] = FALSE]
    /\ UNCHANGED <<uchanVars, panic, count, cdFreed, cdBc, nadj, cdInit, cdSub,
                   cdAdd, cdSets, cdRet, cdHit>>

\* A wait loop that goes round once more whatever the count is.
countdown_wait_continues_always == TRUE

\* A wait loop that is never entered.
countdown_wait_continues_never == FALSE

\* while (atomic_load(&c->n) > 0)
countdown_wait_continues == count > 0

\* The evaluation of the loop condition: into the loop body, or out of the
\* loop, pthread_mutex_unlock and return.
countdown_wait_check(w) ==
    /\ Running
    /\ pc[w] = "cw_locked"
    /\ IF countdown_wait_continues
       THEN /\ pc' = [pc EXCEPT ![w] = "cw_towait"]
            /\ UNCHANGED <<cdMutex, cdRet>>
       ELSE /\ pc' = [pc EXCEPT ![w] = "idle"]
            /\ cdMutex' = None
            /\ cdRet' = [cdRet EXCEPT ![w] = TRUE]
    /\ UNCHANGED <<uchanVars, panic, count, cdFreed, cdBc, nadj, cdInit, cdSub,
                   cdAdd, cdSets, cdLate, cdWaited, cdHit>>

\* pthread_cond_wait(&c->cond, &c->mutex): release the mutex and block.
countdown_wait_wait(w) ==
    /\ Running
    /\ pc[w] = "cw_towait"
    /\ cdMutex' = None
    /\ pc' = [pc EXCEPT ![w] = "cw_waiting"]
    /\ cdWaited' = [cdWaited EXCEPT ![w] = TRUE]
    /\ UNCHANGED <<uchanVars, panic, count, cdFreed, cdBc, nadj, cdInit, cdSub,
                   cdAdd, cdSets, cdLate, cdRet, cdHit>>

\* pthread_cond_wait may return without a broadcast (a spurious wakeup).
CountdownSpuriousWakeup(w) ==
    /\ Running
    /\ pc[w] = "cw_waiting"
    /\ pc' = [pc EXCEPT ![w] = "cw_woken"]
    /\ UNCHANGED <<uchanVars, panic, cdVars>>

\* pthread_cond_wait returns with the mutex held again, to the loop condition.
countdown_wait_wakeup(w) ==
    /\ Running
    /\ pc[w] = "cw_woken"
    /\ cdMutex = None
    /\ cdMutex' = w
    /\ pc' = [pc EXCEPT ![w] = "cw_locked"]
    /\ UNCHANGED <<uchanVars, panic, count, cdFreed, cdBc, nadj, cdInit, cdSub,
                   cdAdd, cdSets, cdLate, cdWaited, cdRet, cdHit>>

\* countdown_free, first step: pthread_cond_broadcast(&c->cond).
countdown_free_broadcast(o) ==
    /\ Running
    /\ cdInit > 0
    /\ ~cdFreed
    /\ pc[o] = "idle"
    /\ pc' = [CdBroadcast(pc) EXCEPT ![o] = "cf_destroy"]
    /\ cdHit' = [w \in Waiters |-> cdHit[w] \/ pc[w] = "cw_waiting"]
    /\ UNCHANGED <<uchanVars, panic, count, cdMutex, cdFreed, cdBc, nadj,
                   cdInit, cdSub, cdAdd, cdSets, cdLate, cdWaited, cdRet>>

\* pthread_cond_destroy with threads blocked on the condition and
\* pthread_mutex_destroy of a held mutex fail with EBUSY or destroy the object
\* all the same (undefined).
CdDestroyOutcomes ==
    IF cdMutex = None /\ \A w \in Waiters : pc[w] # "cw_waiting"
    THEN {"ok"} ELSE {"ok", "ebusy"}

\* countdown_free, the rest: pthread_cond_destroy, pthread_mutex_destroy,
\* free(c).
countdown_free_destroy(o) ==
    /\ Running
    /\ pc[o] = "cf_destroy"
    /\ \E r \in CdDestroyOutcomes :
          IF r = "ok"
          THEN /\ cdFreed' = TRUE
               /\ pc' = [pc EXCEPT ![o] = "cf_done"]
               /\ panic' = panic
          ELSE /\ panic' = "error 16"
               /\ UNCHANGED <<cdFreed, pc>>
    /\ UNCHANGED <<uchanVars, count, cdMutex, cdBc, nadj, cdInit, cdSub, cdAdd,
                   cdSets, cdLate, cdWaited, cdRet, cdHit>>

\* A thread inside countdown_wait or an adjusting call on a freed countdown
\* uses freed memory (undefined): it goes on with what the memory still
\* holds (the other actions), or the process crashes (this one).
CountdownUseAfterFree(t) ==
    /\ Running
    /\ cdFreed
    /\ pc[t] \in {"cw_locked", "cw_towait", "cw_waiting", "cw_woken", "cd_bcast"}
    /\ panic' = "use after free"
    /\ UNCHANGED <<uchanVars, pc, cdVars>>

(***************************************************************************)
(* vqueue.c used on its own: one queue, and a user that makes a planned    *)
(* series of calls, puts, gets, puts and gets, one call at a time.         *)
(***************************************************************************)
\* Everything but the queue vq and panic.
nonVqVars == <<queue, closed, mutex, pc, ch, nsent, nclosed, seen, waited,
               late, histVars, freeVars, selVars, lenVars, cdVars, fibVars,
               selHist, cdObs, rcvLocals>>

\* The lengths of the first three runs of calls; the last run empties vq.
FirstPuts == {INITIAL_CAP, 1000, 2 * INITIAL_CAP + 1}
FirstGets == {3, 258, 700}
SecondPuts == {4, 100}
\* A plan that fills the first array, empties it but for one value, so that
\* head = tail = INITIAL_CAP - 1 when it is full again, and goes on; and a
\* plan that makes the queue shrink from four times INITIAL_CAP while its
\* values lie in one piece, wraps them around the end of the array, and
\* makes it shrink again.
EdgePlans == {<<INITIAL_CAP, INITIAL_CAP - 1, INITIAL_CAP, INITIAL_CAP + 1>>,
              <<2 * INITIAL_CAP + 1, 769, 600, 856>>}
Plans == {<<a, b, c, (a - b) + c>> : a \in FirstPuts, b \in FirstGets,
                                      c \in SecondPuts} \cup EdgePlans

\* The k-th value put: x == NULL is allowed.
VqPayload(k) == IF k % 5 = 0 THEN NULL ELSE k

\* Whether the next call of the plan is a put, or a get.
VqNextIsPut ==
    /\ vqPlan # <<>>
    /\ \/ vqStep < vqPlan[1]
       \/ /\ vqPlan[1] + vqPlan[2] <= vqStep
          /\ vqStep < vqPlan[1] + vqPlan[2] + vqPlan[3]
VqNextIsGet ==
    /\ vqPlan # <<>>
    /\ ~VqNextIsPut
    /\ vqStep < vqPlan[1] + vqPlan[2] + vqPlan[3] + vqPlan[4]

\* VQueue* q = vqueue_new(); the user settles on its calls.
vqueue_new_call(plan) ==
    /\ Running
    /\ vqPlan = <<>>
    /\ vq' = vqueue_new
    /\ vqPlan' = plan
    /\ UNCHANGED <<nonVqVars, panic, vqStep, vqNput, vqGot, vqGrows,
                   vqShrinks, vqSplit, vqShrinkKinds>>

\* vqueue_put(q, x), with the assert of the grow step.
vqueue_put_call ==
    /\ Running
    /\ VqNextIsPut
    /\ vqStep' = vqStep + 1
    /\ vqNput' = vqNput + 1
    /\ IF vq.len = vq.cap /\ vq.head # vq.tail
       THEN /\ panic' = "head index equals tail index"
            /\ UNCHANGED <<vq, vqGrows, vqSplit>>
       ELSE /\ vq' = vqueue_put(vq, VqPayload(vqNput + 1))
            /\ vqGrows' = IF vq.len = vq.cap THEN vqGrows + 1 ELSE vqGrows
            /\ vqSplit' = (vqSplit \/ (vq.len = vq.cap /\ vq.head # 0))
            /\ UNCHANGED panic
    /\ UNCHANGED <<nonVqVars, vqPlan, vqGot, vqShrinks, vqShrinkKinds>>

\* vqueue_get(q), called while more values were put than taken.
vqueue_get_call ==
    /\ Running
    /\ VqNextIsGet
    /\ vqNput > Len(vqGot)
    /\ vqStep' = vqStep + 1
    /\ IF vqueue_empty(vq)
       THEN /\ panic' = "not empty"
            /\ UNCHANGED <<vq, vqGot, vqShrinks, vqSplit, vqShrinkKinds>>
       ELSE /\ vqGot' = Append(vqGot, vqueue_get_value(vq))
            /\ vq' = vqueue_get(vq)
            /\ vqShrinks' = IF vq'.cap < vq.cap THEN vqShrinks + 1
                            ELSE vqShrinks
            /\ vqSplit' = (vqSplit \/ (vq'.cap < vq.cap
                                       /\ (vq.head + 1) % vq.cap > vq.tail))
            /\ vqShrinkKinds' =
                  IF vq'.cap < vq.cap
                  THEN vqShrinkKinds \cup
                         {IF (vq.head + 1) % vq.cap <= vq.tail
                          THEN "linear" ELSE "wrapped"}
                  ELSE vqShrinkKinds
            /\ UNCHANGED panic
    /\ UNCHANGED <<nonVqVars, vqPlan, vqNput, vqGrows>>

(***************************************************************************)
(* fib.c: produce_tasks sends the tasks on channel 0 (ch_tasks) and closes *)
(* it; each solve_tasks thread receives tasks until end-of-stream, sends   *)
(* fib(x) on channel 1 (ch_solutions), then decrements the countdown, and  *)
(* the one that finds 1 closes ch_solutions; main receives the solutions.  *)
(***************************************************************************)
ChTasks == 0
ChSolutions == 1

RECURSIVE fib(_)
fib(n) == IF n <= 0 THEN 0 ELSE IF n = 1 THEN 1 ELSE fib(n - 1) + fib(n - 2)

\* What the calls of fib.c leave alone besides the channels.
fibFrame == <<nsent, nclosed, seen, waited, late, histVars, freeLate,
              selVars, lenVars, cdVars, vqVars, selHist, cdObs, rcvLocals>>

\* main: the channels exist, solver_arg = {ch_tasks, ch_solutions,
\* n_solvers}, and the threads are created.
fib_main_start ==
    /\ Running
    /\ pc[FibMain] = "idle"
    /\ fibCountdown' = NSolvers
    /\ pc' = [t \in Threads |->
                IF t = FibProducer THEN "pt_loop"
                ELSE IF t \in Solvers THEN "st_loop"
                ELSE IF t = FibMain THEN "fm_loop"
                ELSE pc[t]]
    /\ UNCHANGED <<chanVars, ch, panic, freed, fibFrame, fibX, fibGot,
                   fibNtasks, fibCloses>>

\* pthread_mutex_lock(&ch->mutex) at the start of a channel call of fib.c.
FibLock(t, c, from, to) ==
    /\ Running
    /\ pc[t] = from
    /\ CanLock(c)
    /\ mutex' = [mutex EXCEPT ![c] = t]
    /\ pc' = [pc EXCEPT ![t] = to]
    /\ ch' = [ch EXCEPT ![t] = c]
    /\ UNCHANGED <<queue, closed, panic, freed, fibFrame, fibVars>>

\* The rest of uchan_send(c, x) by thread t, which goes on at `to`.
FibSendBody(t, x, to) ==
    LET c == ch[t]
    IN  /\ Running
        /\ pc[t] = "send_locked"
        /\ IF uchan_send_panics(c)
           THEN /\ panic' = "send on closed channel"
                /\ UNCHANGED <<queue, mutex, pc>>
           ELSE /\ queue' = [queue EXCEPT ![c] = uchan_send_queue(queue[c], x)]
                /\ pc' = [Broadcast(pc, c) EXCEPT ![t] = to]
                /\ \E o \in UnlockOutcomes(t, c) :
                      /\ mutex' = MutexAfterUnlock(c, o)
                      /\ panic' = PanicAfterUnlock(o)
        /\ UNCHANGED <<closed, ch, freed, fibFrame>>

\* The rest of uchan_close(c) by thread t, which goes on at `to`.
FibCloseBody(t, to) ==
    LET c == ch[t]
    IN  /\ Running
        /\ pc[t] = "close_locked"
        /\ IF uchan_close_panics(c)
           THEN /\ panic' = "close of closed channel"
                /\ UNCHANGED <<closed, mutex, pc, fibCloses>>
           ELSE /\ closed' = [closed EXCEPT ![c] = uchan_close_flag(@)]
                /\ pc' = [Broadcast(pc, c) EXCEPT ![t] = to]
                /\ fibCloses' = IF c = ChSolutions THEN fibCloses + 1
                                ELSE fibCloses
                /\ \E o \in UnlockOutcomes(t, c) :
                      /\ mutex' = MutexAfterUnlock(c, o)
                      /\ panic' = PanicAfterUnlock(o)
        /\ UNCHANGED <<queue, ch, freed, fibFrame, fibCountdown, fibX, fibGot,
                       fibNtasks>>

\* produce_tasks: for (i < a->i) uchan_send_int(a->ch, 37); then the close.
produce_tasks_send_lock ==
    /\ fibNtasks < NTasks
    /\ FibLock(FibProducer, ChTasks, "pt_loop", "send_locked")

produce_tasks_send_body ==
    /\ FibSendBody(FibProducer, FibArg, "pt_loop")
    /\ fibNtasks' = IF uchan_send_panics(ch[FibProducer]) THEN fibNtasks
                    ELSE fibNtasks + 1
    /\ UNCHANGED <<fibCountdown, fibX, fibGot, fibCloses>>

produce_tasks_close_lock ==
    /\ fibNtasks >= NTasks
    /\ FibLock(FibProducer, ChTasks, "pt_loop", "close_locked")

produce_tasks_close_body == FibCloseBody(FibProducer, "done")

\* A solver that closes ch_solutions whatever the countdown was.
solve_tasks_closes_always(old) == TRUE

\* if (atomic_fetch_sub(&a->countdown, 1) == 1): this solver is the last.
solve_tasks_closes(old) == old = 1

\* solve_tasks: while (uchan_receive2_int(a->ch1, &x)).
solve_tasks_receive_lock(w) ==
    /\ w \in Solvers
    /\ FibLock(w, ChTasks, "st_loop", "rcv_locked")

\* uchan_receive2_int returns: *x is the task, or 0 at end-of-stream.
solve_tasks_receive_body(w) ==
    LET c == ch[w]
        res == uchan_receive2_result(c)
    IN  /\ Running
        /\ w \in Solvers
        /\ pc[w] = "rcv_locked"
        /\ ~MustWait(c)
        /\ queue' = [queue EXCEPT ![c] = res.q]
        /\ fibX' = [fibX EXCEPT ![w] = IF res.ok THEN res.x ELSE 0]
        /\ pc' = [pc EXCEPT ![w] = IF res.ok THEN "st_send" ELSE "st_dec"]
        /\ \E o \in UnlockOutcomes(w, c) :
              /\ mutex' = MutexAfterUnlock(c, o)
              /\ panic' = PanicAfterUnlock(o)
        /\ UNCHANGED <<closed, ch, freed, fibFrame, fibCountdown, fibGot,
                       fibNtasks, fibCloses>>

\* uchan_send_int(a->ch2, fib(x)).
solve_tasks_send_lock(w) ==
    /\ w \in Solvers
    /\ FibLock(w, ChSolutions, "st_send", "send_locked")

solve_tasks_send_body(w) ==
    /\ w \in Solvers
    /\ FibSendBody(w, fib(fibX[w]), "st_loop")
    /\ UNCHANGED fibVars

\* atomic_fetch_sub(&a->countdown, 1) and the comparison of the old value.
solve_tasks_dec(w) ==
    /\ Running
    /\ w \in Solvers
    /\ pc[w] = "st_dec"
    /\ fibCountdown' = fibCountdown - 1
    /\ pc' = [pc EXCEPT ![w] = IF solve_tasks_closes(fibCountdown)
                               THEN "st_close" ELSE "done"]
    /\ UNCHANGED <<chanVars, ch, panic, freed, fibFrame, fibX, fibGot,
                   fibNtasks, fibCloses>>

\* uchan_close(a->ch2).
solve_tasks_close_lock(w) ==
    /\ w \in Solvers
    /\ FibLock(w, ChSolutions, "st_close", "close_locked")

solve_tasks_close_body(w) ==
    /\ w \in Solvers
    /\ FibCloseBody(w, "done")

\* main: while (uchan_receive2_int(ch_solutions, &x)).
fib_main_receive_lock == FibLock(FibMain, ChSolutions, "fm_loop", "rcv_locked")

fib_main_receive_body ==
    LET c == ch[FibMain]
        res == uchan_receive2_result(c)
    IN  /\ Running
        /\ pc[FibMain] = "rcv_locked"
        /\ ~MustWait(c)
        /\ queue' = [queue EXCEPT ![c] = res.q]
        /\ fibGot' = IF res.ok THEN Append(fibGot, res.x) ELSE fibGot
        /\ pc' = [pc EXCEPT ![FibMain] = IF res.ok THEN "fm_loop" ELSE "fm_join"]
        /\ \E o \in UnlockOutcomes(FibMain, c) :
              /\ mutex' = MutexAfterUnlock(c, o)
              /\ panic' = PanicAfterUnlock(o)
        /\ UNCHANGED <<closed, ch, freed, fibFrame, fibCountdown, fibX,
                       fibNtasks, fibCloses>>

\* join(producer); join_all(solvers, n_solvers): every thread has returned.
fib_main_join ==
    /\ Running
    /\ pc[FibMain] = "fm_join"
    /\ \A t \in {FibProducer} \cup Solvers : pc[t] = "done"
    /\ pc' = [pc EXCEPT ![FibMain] = "fm_free"]
    /\ UNCHANGED <<chanVars, ch, panic, freed, fibFrame, fibVars>>

\* uchan_free(ch_tasks); uchan_free(ch_solutions); return 0.  No thread is
\* left that uses the channels; a channel not yet closed is closed first.
fib_main_free ==
    /\ Running
    /\ pc[FibMain] = "fm_free"
    /\ closed' = [c \in Chans |-> TRUE]
    /\ freed' = [c \in Chans |-> TRUE]
    /\ pc' = [pc EXCEPT ![FibMain] = "done"]
    /\ UNCHANGED <<queue, mutex, ch, panic, fibFrame, fibVars>>

(***************************************************************************)
(* The channel alone: producers, blocking receivers and a closing thread.  *)
(***************************************************************************)
\* The channel this specification exercises ("on one channel").
Solo == {0}

Next ==
    \/ \E p \in Producers, c \in Solo : uchan_send_lock(p, c)
    \/ \E p \in Producers : uchan_send_body(p)
    \/ \E r \in Receivers, c \in Solo : uchan_receive2_lock(r, c)
    \/ \E r \in Receivers : uchan_receive2_wait(r)
    \/ \E r \in Receivers : SpuriousWakeup(r)
    \/ \E r \in Receivers : uchan_receive2_wakeup(r)
    \/ \E r \in Receivers : uchan_receive2_body(r)
    \/ \E c \in Solo : uchan_close_lock(Closer, c)
    \/ uchan_close_body(Closer)

Spec == Init /\ [][Next]_vars

\* The scheduler runs every thread that is inside a call and can take its
\* next step (it holds the mutex, or the mutex it needs stays free).  Whether
\* a thread starts a call at all is up to the program, and a spurious wakeup
\* is never owed.
Fairness ==
    /\ \A p \in Producers : WF_vars(uchan_send_body(p))
    /\ \A r \in Receivers :
          WF_vars(uchan_receive2_wait(r) \/ uchan_receive2_wakeup(r)
                  \/ uchan_receive2_body(r))
    /\ WF_vars(uchan_close_body(Closer))

FairSpec == Init /\ [][Next]_vars /\ Fairness

(***************************************************************************)
(* The channel with its owner, who frees it at a time of its choosing.     *)
(***************************************************************************)
FreeNext ==
    \/ Next
    \/ \E c \in Solo : uchan_free_call(Freer, c)
    \/ uchan_free_check(Freer)
    \/ \E c \in Solo : uchan_close_lock(Freer, c)
    \/ uchan_close_body(Freer)
    \/ uchan_free_destroy(Freer)
    \/ \E t \in Producers \cup Receivers \cup {Closer} : UseAfterFree(t)

FreeSpec == Init /\ [][FreeNext]_vars

(***************************************************************************)
(* uchan_select over all channels, with the producers and a closing        *)
(* thread.  The select call is the only receiver.                          *)
(***************************************************************************)
SelectProducers == {"p1"}

SelectNext ==
    \/ \E p \in SelectProducers, c \in Chans : uchan_send_lock(p, c)
    \/ \E p \in SelectProducers : uchan_send_body(p)
    \/ \E c \in Chans : uchan_close_lock(Closer, c)
    \/ uchan_close_body(Closer)
    \/ uchan_select_call
    \/ uchan_receive2_noblock_lock
    \/ uchan_select_noblock_step
    \/ uchan_select_create
    \/ uchan_select_lock
    \/ uchan_select_wait
    \/ SelectSpuriousWakeup
    \/ uchan_select_wakeup
    \/ uchan_select_return
    \/ \E h \in Helpers : select_thread_func_lock(h)
    \/ \E h \in Helpers : uchan_receive2_wait(h)
    \/ \E h \in Helpers : SpuriousWakeup(h)
    \/ \E h \in Helpers : uchan_receive2_wakeup(h)
    \/ \E h \in Helpers : select_thread_cancel_at_wait(h)
    \/ \E h \in Helpers : select_thread_cancel_in_wait(h)
    \/ \E h \in Helpers : select_thread_cancel_reacquire(h)
    \/ \E h \in Helpers : check_select_continue_lock(h)
    \/ \E h \in Helpers : check_select_continue_body(h)
    \/ \E h \in Helpers : select_thread_receive(h)
    \/ \E h \in Helpers : select_thread_cleanup(h)
    \/ \E h \in Helpers : signal_if_last_select_thread(h)
    \/ \E h \in Helpers : UseAfterReturn(h)

SelectSpec == Init /\ [][SelectNext]_vars

(***************************************************************************)
(* Every operation: the select call, a producer on channel 0, a thread     *)
(* that closes channel 1 and asks for the length of a channel.             *)
(***************************************************************************)
OpsNext ==
    \/ \E p \in SelectProducers, c \in Solo : uchan_send_lock(p, c)
    \/ \E p \in SelectProducers : uchan_send_body(p)
    \/ \E c \in Chans \ Solo : uchan_close_lock(Closer, c)
    \/ uchan_close_body(Closer)
    \/ \E c \in Chans : uchan_len_lock(Closer, c)
    \/ uchan_len_body(Closer)
    \/ uchan_select_call
    \/ uchan_receive2_noblock_lock
    \/ uchan_select_noblock_step
    \/ uchan_select_create
    \/ uchan_select_lock
    \/ uchan_select_wait
    \/ SelectSpuriousWakeup
    \/ uchan_select_wakeup
    \/ uchan_select_return
    \/ \E h \in Helpers : select_thread_func_lock(h)
    \/ \E h \in Helpers : uchan_receive2_wait(h)
    \/ \E h \in Helpers : SpuriousWakeup(h)
    \/ \E h \in Helpers : uchan_receive2_wakeup(h)
    \/ \E h \in Helpers : select_thread_cancel_at_wait(h)
    \/ \E h \in Helpers : select_thread_cancel_in_wait(h)
    \/ \E h \in Helpers : select_thread_cancel_reacquire(h)
    \/ \E h \in Helpers : check_select_continue_lock(h)
    \/ \E h \in Helpers : check_select_continue_body(h)
    \/ \E h \in Helpers : select_thread_receive(h)
    \/ \E h \in Helpers : select_thread_cleanup(h)
    \/ \E h \in Helpers : signal_if_last_select_thread(h)
    \/ \E h \in Helpers : UseAfterReturn(h)

OpsSpec == Init /\ [][OpsNext]_vars

(***************************************************************************)
(* One channel with senders (one of them sends NULL), receivers that use   *)
(* the blocking or the non-blocking receive, and a closing thread.         *)
(***************************************************************************)
SoloSenders == {NullProducer, "p1"}

SoloNext ==
    \/ \E p \in SoloSenders, c \in Solo : uchan_send_lock(p, c)
    \/ \E p \in SoloSenders : uchan_send_body(p)
    \/ \E r \in Receivers, c \in Solo : uchan_receive2_lock(r, c)
    \/ \E r \in Receivers : uchan_receive2_wait(r)
    \/ \E r \in Receivers : SpuriousWakeup(r)
    \/ \E r \in Receivers : uchan_receive2_wakeup(r)
    \/ \E r \in Receivers : uchan_receive2_body(r)
    \/ \E r \in Receivers, c \in Solo : uchan_receive2_noblock_call(r, c)
    \/ \E r \in Receivers : uchan_receive2_noblock_body(r)
    \/ \E c \in Solo : uchan_close_lock(Closer, c)
    \/ uchan_close_body(Closer)

SoloSpec == Init /\ [][SoloNext]_vars

(***************************************************************************)
(* The select call over all channels, a producer on channel 0, and two     *)
(* more receivers on channel 0: one that calls uchan_receive2 and one that *)
(* calls uchan_receive2_noblock.                                           *)
(***************************************************************************)
BlockingReceiver == "r1"
PollingReceiver == "r2"

MixedNext ==
    \/ \E p \in SelectProducers, c \in Solo : uchan_send_lock(p, c)
    \/ \E p \in SelectProducers : uchan_send_body(p)
    \/ \E c \in Solo : uchan_receive2_lock(BlockingReceiver, c)
    \/ uchan_receive2_wait(BlockingReceiver)
    \/ uchan_receive2_wakeup(BlockingReceiver)
    \/ uchan_receive2_has_value(BlockingReceiver)
    \/ uchan_receive2_get(BlockingReceiver)
    \/ uchan_receive2_return(BlockingReceiver)
    \/ \E c \in Solo : uchan_receive2_noblock_call(PollingReceiver, c)
    \/ uchan_receive2_noblock_body(PollingReceiver)
    \/ uchan_select_call
    \/ uchan_receive2_noblock_lock
    \/ uchan_select_noblock_step
    \/ uchan_select_create
    \/ uchan_select_lock
    \/ uchan_select_wait
    \/ uchan_select_wakeup
    \/ uchan_select_return
    \/ \E h \in Helpers : select_thread_func_lock(h)
    \/ \E h \in Helpers : uchan_receive2_wait(h)
    \/ \E h \in Helpers : uchan_receive2_wakeup(h)
    \/ \E h \in Helpers : select_thread_cancel_at_wait(h)
    \/ \E h \in Helpers : select_thread_cancel_in_wait(h)
    \/ \E h \in Helpers : select_thread_cancel_reacquire(h)
    \/ \E h \in Helpers : check_select_continue_lock(h)
    \/ \E h \in Helpers : check_select_continue_body(h)
    \/ \E h \in Helpers : select_thread_receive(h)
    \/ \E h \in Helpers : select_thread_cleanup(h)
    \/ \E h \in Helpers : signal_if_last_select_thread(h)

MixedSpec == Init /\ [][MixedNext]_vars

(***************************************************************************)
(* Claims about the channel.                                               *)
(***************************************************************************)
\* Payload(p, k) names its producer and its position in p's program order.
ProducerOf(v) == v \div 10
SeqNoOf(v) == v % 10

\* Values of one producer appear in s in the order that producer sent them.
ProducerOrdered(s) ==
    \A i, j \in DOMAIN s :
        (i < j /\ ProducerOf(s[i]) = ProducerOf(s[j])) => SeqNoOf(s[i]) < SeqNoOf(s[j])

\* The values receiver r got from channel c, in the order r got them.
SeenValues(r, c) ==
    LET got == SelectSeq(seen[r], LAMBDA e : e.ok /\ e.c = c)
    IN  [i \in DOMAIN got |-> got[i].x]

\* C1: per-producer FIFO.  The values dequeued from a channel so far,
\* followed by the values still in it, hold each producer's values in the
\* order that producer's sends completed; and what a single receiver has
\* received from the channel holds them in that order, too.
C1_PerProducerFIFO ==
    \A c \in Chans :
        /\ ProducerOrdered(recvLog[c] \o Contents(queue[c]))
        /\ \A r \in Receivers : ProducerOrdered(SeenValues(r, c))

\* Both producers' values were dequeued interleaved, one receiver got two
\* values of the same producer, and a third value is still queued.
C1_Witness ==
    /\ Len(recvLog[0]) >= 3
    /\ \E i, j \in DOMAIN recvLog[0] :
          i < j /\ ProducerOf(recvLog[0][i]) # ProducerOf(recvLog[0][j])
    /\ \E r \in Receivers : \E i, j \in DOMAIN SeenValues(r, 0) :
          i < j /\ ProducerOf(SeenValues(r, 0)[i]) = ProducerOf(SeenValues(r, 0)[j])
    /\ Len(Contents(queue[0])) >= 1

\* What the i-th receive after the close of c returns when the channel held
\* closeSnap[c] at the close.
DrainExpected(c, i) ==
    IF i <= Len(closeSnap[c])
    THEN [x |-> closeSnap[c][i], ok |-> TRUE]
    ELSE [x |-> NULL, ok |-> FALSE]

\* All receives completed on c since its close are calls of receiver r that
\* began after the close.
SoleLateReceiver(c, r) ==
    \A i \in DOMAIN drain[c] : drain[c][i].who = r /\ drain[c][i].late

\* C2: drain preservation.  If channel c held v1..vk when uchan_close
\* completed and one receiver makes the receives that follow, its calls
\* return (v1, true), ..., (vk, true), then (NULL, false); and no receive that
\* begins on a closed channel waits on the condition.
C2_DrainPreservation ==
    /\ \A c \in Chans, r \in Receivers :
          (closed[c] /\ SoleLateReceiver(c, r)) =>
              \A i \in DOMAIN drain[c] :
                  /\ [x |-> drain[c][i].x, ok |-> drain[c][i].ok] = DrainExpected(c, i)
                  /\ ~drain[c][i].waited
    /\ \A r \in Receivers : late[r] => ~waited[r] /\ pc[r] \notin {"rcv_waiting", "rcv_woken"}

\* A channel closed with a value in it, drained by one receiver in two calls
\* that both began after the close: the value with true, then NULL with false.
C2_Witness ==
    /\ closed[0]
    /\ Len(closeSnap[0]) = 1
    /\ Len(drain[0]) = 2
    /\ SoleLateReceiver(0, "r1")
    /\ drain[0][1].ok
    /\ ~drain[0][2].ok

\* C3: closed-and-drained is a non-blocking sink.  From a state where the
\* channel is closed and empty, every step leaves it closed and empty with
\* the queue untouched, and a receiver that holds the mutex in
\* uchan_receive2 does not enter the wait: its step returns (NULL, false).
C3_ClosedDrainedSink ==
    [][\A c \in Chans :
          (closed[c] /\ vqueue_empty(queue[c])) =>
              /\ closed'[c]
              /\ queue'[c] = queue[c]
              /\ \A r \in Receivers :
                    (pc[r] = "rcv_locked" /\ ch[r] = c /\ pc'[r] # pc[r]) =>
                        /\ pc'[r] = "idle"
                        /\ Len(seen'[r]) = Len(seen[r]) + 1
                        /\ seen'[r][Len(seen'[r])] = [c |-> c, x |-> NULL, ok |-> FALSE, nb |-> FALSE]
       ]_vars

\* A receiver got (NULL, false) twice in a row from the closed, drained
\* channel, without waiting.
C3_Witness ==
    /\ closed[0]
    /\ vqueue_empty(queue[0])
    /\ \E r \in Receivers :
          /\ Len(seen[r]) >= 2
          /\ ~seen[r][Len(seen[r])].ok
          /\ ~seen[r][Len(seen[r]) - 1].ok
          /\ ~waited[r]

\* C9: no post-close send.  A uchan_send that holds the mutex of a closed
\* channel never completes and enqueues nothing: whatever step is taken, the
\* sender is still at the check, the channel's send history and queue length
\* do not grow; and the "send on closed channel" panic only arises from such
\* a sender.
C9_NoPostCloseSend ==
    [][/\ \A p \in Producers :
             (pc[p] = "send_locked" /\ closed[ch[p]]) =>
                 /\ pc'[p] = "send_locked"
                 /\ nsent'[p] = nsent[p]
                 /\ sentLog'[ch[p]] = sentLog[ch[p]]
                 /\ vqueue_len(queue'[ch[p]]) <= vqueue_len(queue[ch[p]])
       /\ \A c \in Chans : closed[c] => sentLog'[c] = sentLog[c]
       /\ (panic' = "send on closed channel" /\ panic = None) =>
             \E p \in Producers :
                 /\ pc[p] = "send_locked" /\ closed[ch[p]]
                 /\ queue' = queue
       ]_vars

\* The process died of "send on closed channel" with a value still queued.
C9_Witness ==
    /\ panic = "send on closed channel"
    /\ \E p \in Producers : pc[p] = "send_locked" /\ closed[ch[p]]
    /\ vqueue_len(queue[0]) >= 1

\* Receiver r is inside uchan_receive2.
InReceive(r) == pc[r] \in {"rcv_locked", "rcv_waiting", "rcv_woken"}

\* The receive calls that can still take a value from the channel: those in
\* progress and those the receivers have yet to make.
Demand == Cardinality({<<r, n>> \in Receivers \X (1 .. MaxRecvs) : n > Len(seen[r])})

\* C8: no lost wakeup (under FairSpec).  A receiver that is inside
\* uchan_receive2 on a channel that is closed eventually returns; and when the
\* channel holds a value for every receive that can still be made, every
\* receiver inside uchan_receive2 eventually returns with had_value = true.
\* (A process that a fatal error has terminated returns from nothing.)
C8_NoLostWakeup ==
    \A r \in Receivers : \A n \in 0 .. (MaxRecvs - 1) :
        /\ (InReceive(r) /\ Len(seen[r]) = n /\ closed[ch[r]])
              ~> (Len(seen[r]) > n \/ ~Running)
        /\ (InReceive(r) /\ Len(seen[r]) = n /\ vqueue_len(queue[ch[r]]) >= Demand)
              ~> ((Len(seen[r]) > n /\ seen[r][n + 1].ok) \/ ~Running)

\* Both receivers waited on the open, empty channel and both returned: one
\* with a value, the other after the close.
C8_Witness ==
    /\ \A r \in Receivers : Len(seen[r]) >= 1 /\ waited[r] /\ pc[r] = "idle"
    /\ \E r \in Receivers : seen[r][Len(seen[r])].ok
    /\ \E r \in Receivers : ~seen[r][Len(seen[r])].ok

\* C10: single close (under FreeSpec).  A uchan_close that holds the mutex of
\* an open channel completes and sets closed, without a fatal error; one that
\* holds the mutex of a closed channel never completes and changes no flag,
\* and the "close of closed channel" panic arises from such a call; and a
\* uchan_free that was called on an already closed channel never enters
\* uchan_close.
C10_SingleClose ==
    [][/\ \A t \in {Closer, Freer} :
             pc[t] = "close_locked" =>
                 IF closed[ch[t]]
                 THEN pc'[t] = "close_locked" /\ closed' = closed
                 ELSE pc'[t] # "close_locked" =>
                          (closed'[ch[t]] /\ panic' = None /\ mutex'[ch[t]] = None)
       /\ (panic' = "close of closed channel" /\ panic = None) =>
             \E t \in {Closer, Freer} : pc[t] = "close_locked" /\ closed[ch[t]]
       /\ freeLate' => pc'[Freer] \notin {"free_close", "close_locked"}
       ]_vars

\* The first close succeeded, uchan_free found the channel closed and went
\* on to destroy it without closing, and a second uchan_close panicked.
C10_Witness ==
    /\ panic = "close of closed channel"
    /\ nclosed = 1
    /\ pc[Closer] = "close_locked"
    /\ freeLate
    /\ pc[Freer] = "free_destroy"

(***************************************************************************)
(* uchan_select (SelectSpec).  The select call is the only receiver, so    *)
(* recvLog[c] holds exactly what the call took from channel c.             *)
(***************************************************************************)
\* uchan_select has returned.
Returned == selret.phase # "none"

\* The number of values taken from the candidates.
RECURSIVE Removed(_)
Removed(n) == IF n = 0 THEN 0 ELSE Len(recvLog[n - 1]) + Removed(n - 1)

\* Channel c has lost nothing: all that was sent to it is in its queue, in order.
Untouched(c) == recvLog[c] = <<>> /\ Contents(queue[c]) = sentLog[c]

\* C4: select exclusivity.  The call removes at most one value in total, and
\* once it has returned index idx, every other candidate still holds
\* everything that was sent to it, in order.
C4_SelectExclusivity ==
    /\ Removed(NCh) <= 1
    /\ Returned => \A c \in Chans : c # selret.idx => Untouched(c)

\* C5: phase A returns the original index.  When the non-blocking scan has
\* returned, the returned index is the channel the value was dequeued from,
\* had_value is true, and all other candidates are untouched.
C5_PhaseAOriginalIndex ==
    selret.phase = "A" =>
        /\ selret.ok
        /\ selret.idx \in Chans
        /\ recvLog[selret.idx] = <<selret.x>>
        /\ \A c \in Chans : c # selret.idx => Untouched(c)

\* The helper of item i is the selected one and its uchan_receive2 has returned.
HelperReceived(i) ==
    /\ cs.selected = i
    /\ pc[Helper(i)] \in {"h_cleanup", "h_signal", "h_done"}

\* C6: phase B result correspondence.  When the blocking path has returned
\* (idx, x, had_value), idx is the index of the selected helper, and what that
\* helper's receive has produced is (x, had_value): the head taken from
\* channel idx with true, or NULL with false from the closed, empty channel.
C6_PhaseBCorrespondence ==
    selret.phase = "B" =>
        /\ selret.idx \in Chans
        /\ selret.idx = cs.selected
        /\ HelperReceived(selret.idx) =>
              /\ selret.x = items[selret.idx].x
              /\ selret.ok = items[selret.idx].has_value
              /\ IF selret.ok
                 THEN recvLog[selret.idx] = <<selret.x>>
                 ELSE selret.x = NULL /\ closed[selret.idx] /\ recvLog[selret.idx] = <<>>

\* All helper threads have finished.
HelpersDone == \A h \in Helpers : pc[h] = "h_done"

\* C7: select liveness, as the state it excludes.  The caller is never
\* blocked in its wait on the session condition when a helper has been
\* selected and all helpers have finished (nobody is left to signal).
C7_NeverLeftWaiting ==
    ~(pc[Sel] = "sel_waiting" /\ cs.selected # NoItem /\ HelpersDone)

(***************************************************************************)
(* The countdown with waiters and threads that adjust it in every way.     *)
(***************************************************************************)
\* The amounts of countdown_add and countdown_sub, the values of countdown_set.
Amounts == 1 .. MaxAmount
SetValues == 0 .. 1

CountdownNext ==
    \/ \E n \in 1 .. MaxCount : countdown_new(n)
    \/ \E a \in Adjusters, i \in Amounts : countdown_add(a, i)
    \/ \E a \in Adjusters : countdown_inc(a)
    \/ \E a \in Adjusters, i \in Amounts : countdown_sub(a, i)
    \/ \E a \in Adjusters : countdown_dec(a)
    \/ \E a \in Adjusters, i \in SetValues : countdown_set(a, i)
    \/ \E a \in Adjusters : countdown_broadcast(a)
    \/ \E w \in Waiters : countdown_wait_lock(w)
    \/ \E w \in Waiters : countdown_wait_check(w)
    \/ \E w \in Waiters : countdown_wait_wait(w)
    \/ \E w \in Waiters : CountdownSpuriousWakeup(w)
    \/ \E w \in Waiters : countdown_wait_wakeup(w)

CountdownSpec == Init /\ [][CountdownNext]_vars

\* The adjusting calls of two threads, interleaved with each other and with
\* the reading calls of a third.
AdjustNext ==
    \/ \E n \in 1 .. MaxCount : countdown_new(n)
    \/ \E a \in Adjusters :
          \/ \E i \in Amounts : countdown_add(a, i)
          \/ countdown_inc(a)
          \/ \E i \in Amounts : countdown_sub(a, i)
          \/ countdown_dec(a)
          \/ countdown_broadcast(a)
    \/ countdown_get_call
    \/ countdown_finished_call

AdjustSpec == Init /\ [][AdjustNext]_vars

(***************************************************************************)
(* The countdown as a gate (quicksort.c): workers only decrement, main     *)
(* waits and then closes the work channel, a worker receives from it.      *)
(***************************************************************************)
GateNext ==
    \/ \E n \in 1 .. MaxCount : countdown_new(n)
    \/ \E a \in Adjusters, i \in Amounts : countdown_sub(a, i)
    \/ \E a \in Adjusters : countdown_dec(a)
    \/ \E a \in Adjusters : countdown_broadcast(a)
    \/ \E w \in Waiters : countdown_wait_lock(w)
    \/ \E w \in Waiters : countdown_wait_check(w)
    \/ \E w \in Waiters : countdown_wait_wait(w)
    \/ \E w \in Waiters : CountdownSpuriousWakeup(w)
    \/ \E w \in Waiters : countdown_wait_wakeup(w)
    \/ \E c \in Solo : cdRet[Closer] /\ uchan_close_lock(Closer, c)
    \/ uchan_close_body(Closer)
    \/ \E c \in Solo : uchan_receive2_lock("r1", c)
    \/ uchan_receive2_wait("r1")
    \/ SpuriousWakeup("r1")
    \/ uchan_receive2_wakeup("r1")
    \/ uchan_receive2_body("r1")

GateSpec == Init /\ [][GateNext]_vars

(***************************************************************************)
(* The countdown with its owner, who frees it at a time of its choosing.   *)
(***************************************************************************)
CountdownFreeNext ==
    \/ \E n \in 1 .. MaxCount : countdown_new(n)
    \/ \E a \in Adjusters : countdown_dec(a)
    \/ \E a \in Adjusters : countdown_broadcast(a)
    \/ \E w \in Waiters : countdown_wait_lock(w)
    \/ \E w \in Waiters : countdown_wait_check(w)
    \/ \E w \in Waiters : countdown_wait_wait(w)
    \/ \E w \in Waiters : CountdownSpuriousWakeup(w)
    \/ \E w \in Waiters : countdown_wait_wakeup(w)
    \/ countdown_free_broadcast(CdOwner)
    \/ countdown_free_destroy(CdOwner)
    \/ \E t \in Waiters \cup Adjusters : CountdownUseAfterFree(t)

CountdownFreeSpec == Init /\ [][CountdownFreeNext]_vars

\* The queue alone: vqueue_new, then the puts and gets of one plan.
VQueueNext ==
    \/ \E plan \in Plans : vqueue_new_call(plan)
    \/ vqueue_put_call
    \/ vqueue_get_call

VQueueSpec == Init /\ [][VQueueNext]_vars

\* fib.c: the producer, the solvers and main.
FibStep(t) ==
    \/ t = FibProducer /\ produce_tasks_send_lock
    \/ t = FibProducer /\ produce_tasks_send_body
    \/ t = FibProducer /\ produce_tasks_close_lock
    \/ t = FibProducer /\ produce_tasks_close_body
    \/ solve_tasks_receive_lock(t)
    \/ solve_tasks_receive_body(t)
    \/ solve_tasks_send_lock(t)
    \/ solve_tasks_send_body(t)
    \/ solve_tasks_dec(t)
    \/ solve_tasks_close_lock(t)
    \/ solve_tasks_close_body(t)
    \/ t = FibMain /\ fib_main_receive_lock
    \/ t = FibMain /\ fib_main_receive_body
    \/ t = FibMain /\ fib_main_join
    \/ t = FibMain /\ fib_main_free
    \/ t \in Solvers \cup {FibMain} /\ uchan_receive2_wait(t)
    \/ t \in Solvers \cup {FibMain} /\ uchan_receive2_wakeup(t)

FibNext ==
    \/ fib_main_start
    \/ \E t \in FibThreads : FibStep(t)
    \/ \E t \in Solvers \cup {FibMain} : SpuriousWakeup(t)

FibSpec == Init /\ [][FibNext]_vars

\* The scheduler runs every thread that can take a step, and a thread that
\* finds the mutex it needs free again and again gets it in the end; a
\* spurious wakeup is never owed.
FibFairness ==
    /\ WF_vars(fib_main_start)
    /\ \A t \in FibThreads : SF_vars(FibStep(t))

FibFairSpec == FibSpec /\ FibFairness

(***************************************************************************)
(* The closed flag and the results of the receives (OpsSpec, SoloSpec).    *)
(***************************************************************************)
\* C11: the closed flag is monotone.  No step of any operation (send,
\* receive, non-blocking receive, len, select, close) takes a channel from
\* closed back to open.
C11_ClosedMonotone ==
    [][\A c \in Chans : closed[c] => closed'[c]]_vars

\* Channel 1 is closed, and since then the select call has received from it
\* through a helper, a send has completed and uchan_len has returned.
C11_Witness ==
    /\ closed[1]
    /\ selret.phase = "B"
    /\ selret.idx = 1
    /\ lenret.done
    /\ sentLog[0] # <<>>

\* The result of the call receiver r has just completed.
LastSeen(r) == seen'[r][Len(seen'[r])]

\* C12: had_value disambiguates NULL payloads.  Every uchan_receive2 call
\* that completes returns true exactly when it dequeued a value, which is
\* then the head of the queue (NULL included); it returns (NULL, false) only
\* when the channel was closed and empty at that moment, and then the queue
\* is as it was.
C12_HadValue ==
    [][\A r \in Receivers :
          (pc[r] = "rcv_locked" /\ pc'[r] = "idle") =>
              LET c == ch[r]
                  res == LastSeen(r)
              IN  /\ res.ok <=> vqueue_len(queue'[c]) = vqueue_len(queue[c]) - 1
                  /\ res.ok <=> ~vqueue_empty(queue[c])
                  /\ res.ok => /\ res.x = Contents(queue[c])[1]
                               /\ recvLog'[c] = Append(recvLog[c], res.x)
                  /\ ~res.ok => /\ res.x = NULL
                                /\ closed[c]
                                /\ queue'[c] = queue[c]
                                /\ recvLog'[c] = recvLog[c]]_vars

\* A NULL payload was sent, the channel was closed, and blocking receives
\* then returned (NULL, true) and after it (NULL, false).
C12_Witness ==
    /\ Len(drain[0]) = 2
    /\ drain[0][1].x = NULL
    /\ drain[0][1].ok
    /\ drain[0][2].x = NULL
    /\ ~drain[0][2].ok

\* C13: uchan_receive2_noblock never waits.  A receiver inside the call goes
\* nowhere but to its return; on a non-empty queue the call removes the head
\* and returns it with true; on an empty queue it returns (NULL, false) and
\* leaves the queue and the closed flag as they were, open or closed alike.
C13_NoblockNeverWaits ==
    [][\A r \in Receivers :
          pc[r] = "nb_locked" =>
              /\ pc'[r] \in {"nb_locked", "idle"}
              /\ pc'[r] = "idle" =>
                    LET c == ch[r]
                        res == LastSeen(r)
                    IN  /\ res.nb
                        /\ closed'[c] = closed[c]
                        /\ IF ~vqueue_empty(queue[c])
                           THEN /\ res.ok
                                /\ res.x = Contents(queue[c])[1]
                                /\ Contents(queue'[c]) = Tail(Contents(queue[c]))
                           ELSE /\ ~res.ok
                                /\ res.x = NULL
                                /\ queue'[c] = queue[c]]_vars

\* A non-blocking receive on the open, empty channel and one on the closed,
\* empty channel have both returned (NULL, false), and a third one a value.
C13_Witness ==
    /\ seen["r1"] = <<[c |-> 0, x |-> NULL, ok |-> FALSE, nb |-> TRUE]>>
    /\ ~late["r1"]
    /\ Len(seen["r2"]) = 2
    /\ seen["r2"][1].nb /\ seen["r2"][1].ok
    /\ seen["r2"][2] = [c |-> 0, x |-> NULL, ok |-> FALSE, nb |-> TRUE]
    /\ late["r2"]

(***************************************************************************)
(* uchan_free with receivers inside uchan_receive2 (FreeSpec).             *)
(***************************************************************************)
\* Receiver r is inside a uchan_receive2 call on channel c in which it has
\* waited on the condition.
BlockedIn(r, c) ==
    /\ ch[r] = c
    /\ waited[r]
    /\ pc[r] \in {"rcv_waiting", "rcv_woken", "rcv_locked"}

\* C14: uchan_free releases the blocked receivers.  When uchan_free was
\* called on a channel that was not closed, a receiver that has waited inside
\* uchan_receive2 completes its receive on the channel: the channel is never
\* destroyed and freed while the receiver is still inside the call.
C14_FreeReleasesReceivers ==
    \A r \in Receivers, c \in Chans :
        (BlockedIn(r, c) /\ ~freeLate) => ~freed[c]

(***************************************************************************)
(* The countdown (GateSpec, CountdownSpec, CountdownFreeSpec).             *)
(***************************************************************************)
\* Waiter w is inside the loop body of countdown_wait.
InWait(w) == pc[w] \in {"cw_towait", "cw_waiting", "cw_woken"}

\* C15: countdown quiescence.  Once count <= 0, decrements (dec, sub) keep it
\* so; a waiter that evaluates the loop condition then returns, and a
\* countdown_wait call that began with count <= 0 never waits on the
\* condition.
C15_Quiescence ==
    [][(cdInit > 0 /\ count <= 0) =>
          /\ count' <= 0
          /\ \A w \in Waiters :
                /\ pc[w] = "cw_locked" => pc'[w] \in {"cw_locked", "idle"}
                /\ (pc[w] = "cw_locked" /\ pc'[w] = "idle") => cdRet'[w]
                /\ cdLate'[w] => (~InWait(w)' /\ ~cdWaited'[w])]_vars

\* The count was decremented below zero; main returned from a wait in which
\* it had blocked, and the other waiter, who called countdown_wait with
\* count <= 0, returned without waiting.
C15_Witness ==
    /\ count < 0
    /\ cdRet[Closer] /\ cdWaited[Closer]
    /\ cdRet["w2"] /\ cdLate["w2"] /\ ~cdWaited["w2"]

\* C16: the countdown has no lost wakeup.  A waiter blocked on the condition
\* while count <= 0 is always about to be woken: some adjusting call still has
\* its broadcast to do.
C16_NoLostWakeup ==
    \A w \in Waiters :
        (pc[w] = "cw_waiting" /\ count <= 0) =>
            \E a \in Adjusters : pc[a] = "cd_bcast" /\ cdBc[a]

\* C17: countdown gate safety.  With decrements only, countdown_wait has
\* returned only if count <= 0 and the decrements applied amount to at least
\* the initial value; the work channel is closed only after main's wait has
\* returned, and whenever a worker has seen end-of-stream on it the countdown
\* is finished (count <= 0).
C17_GateSafety ==
    /\ \A w \in Waiters : cdRet[w] => (count <= 0 /\ cdSub >= cdInit)
    /\ closed[0] => cdRet[Closer]
    /\ \A r \in Receivers : \A k \in 1 .. Len(seen[r]) :
          ~seen[r][k].ok => (count <= 0 /\ cdSub >= cdInit)

\* A countdown of MaxCount was counted down to exactly zero, main waited on
\* the condition, returned and closed the work channel, and the worker saw
\* end-of-stream.
C17_Witness ==
    /\ cdInit = MaxCount
    /\ count = 0
    /\ cdWaited[Closer] /\ cdRet[Closer]
    /\ closed[0]
    /\ seen["r1"] # <<>>
    /\ ~seen["r1"][1].ok

\* C18: countdown_free unblocks the waiters regardless of the count.  A
\* waiter that was blocked in the wait when countdown_free broadcast leaves
\* countdown_wait: it is never blocked on the condition again.
C18_FreeUnblocksWaiters ==
    \A w \in Waiters : cdHit[w] => pc[w] # "cw_waiting"


(***************************************************************************)
(* Claims about the queue.                                                 *)
(***************************************************************************)
\* The values put and not yet taken, oldest first.
VqAbstract == [i \in 1 .. (vqNput - Len(vqGot)) |-> VqPayload(Len(vqGot) + i)]

\* C19: the queue behaves as a FIFO sequence.  After any series of
\* vqueue_put and vqueue_get calls (get only while values remain), growing
\* and shrinking included, no call has failed, the i-th get returned the
\* i-th value put, the ring buffer holds the values put and not yet taken in
\* their order, and vqueue_len and vqueue_empty give the length and the
\* emptiness of that sequence.
C19_QueueFifo ==
    vqPlan # <<>> =>
        /\ panic = None
        /\ \A i \in 1 .. Len(vqGot) : vqGot[i] = VqPayload(i)
        /\ Contents(vq) = VqAbstract
        /\ vqueue_len(vq) = Len(VqAbstract)
        /\ vqueue_empty(vq) <=> (VqAbstract = <<>>)

\* C19 happens: the queue grew and shrank, one of the copies was of a
\* wrapped region, and every value put has been taken.
C19_Witness ==
    /\ vqGrows >= 1
    /\ vqShrinks >= 1
    /\ vqSplit
    /\ vqNput > INITIAL_CAP
    /\ Len(vqGot) = vqNput

\* C20: capacity bounds.  After vqueue_new and after every vqueue_put and
\* vqueue_get, cap >= INITIAL_CAP and 0 <= len <= cap.
C20_CapacityBounds ==
    vqPlan # <<>> =>
        /\ vq.cap >= INITIAL_CAP
        /\ 0 <= vq.len
        /\ vq.len <= vq.cap

\* C20 happens: the queue grew and shrank back to its initial capacity,
\* and still has values in it.
C20_Witness ==
    /\ vqGrows >= 1
    /\ vqShrinks >= 1
    /\ vq.cap = INITIAL_CAP
    /\ vq.len > 0


(***************************************************************************)
(* Claims about the worker pipeline of fib.c.                              *)
(***************************************************************************)
\* main of fib.c has left its receive loop.
FibMainDrained == pc[FibMain] \in {"fm_join", "fm_free", "done"}

\* No call has failed; ch_solutions was closed at most once; no solver is
\* about to send on it once it is closed; main has received no more than
\* the NTasks solutions, each fib(FibArg); and when main has seen
\* end-of-stream it has received exactly NTasks of them, after the one close.
FibSafe ==
    /\ panic = None
    /\ fibCloses <= 1
    /\ closed[ChSolutions] =>
          \A w \in Solvers : pc[w] \notin {"st_send", "send_locked"}
    /\ Len(fibGot) <= NTasks
    /\ \A i \in 1 .. Len(fibGot) : fibGot[i] = fib(FibArg)
    /\ FibMainDrained =>
          /\ Len(fibGot) = NTasks
          /\ fibCloses = 1
          /\ closed[ChSolutions]

\* C21: the worker pipeline.  In every interleaving of the producer, the
\* solvers and main, the result channel is closed exactly once, no solver
\* sends on it after the close, and main obtains exactly NTasks results
\* followed by end-of-stream, and terminates.
C21_Pipeline == []FibSafe /\ <>(pc[FibMain] = "done")

\* C21 happens: main has terminated with all the results, after the last
\* solver closed the result channel, and main had to wait for a result.
C21_Witness ==
    /\ pc[FibMain] = "done"
    /\ Len(fibGot) = NTasks
    /\ fibCloses = 1
    /\ fibCountdown = 0
    /\ waited[FibMain]

(***************************************************************************)
(* Claims about the locks and the helper threads of uchan_select.          *)
(***************************************************************************)
\* Thread t holds the mutex of some channel.
HoldsChannelMutex(t) == \E c \in Chans : mutex[c] = t

\* C22: lock order.  No thread acquires the mutex of the select session
\* while it holds the mutex of a candidate channel: the session mutex comes
\* first, a channel mutex second, never the reverse.
C22_LockOrder ==
    [][\A t \in Threads :
          (cs'.mutex = t /\ cs.mutex # t) => ~HoldsChannelMutex(t)]_vars

\* Thread t is at a step that reads or writes ch->queue or ch->closed of the
\* channel of its call: the bodies of send, receive2, receive2_noblock, len
\* and close, and in uchan_free the test of ch->closed and vqueue_free.
AtChannelAccess(t) ==
    pc[t] \in {"send_locked", "rcv_locked", "nb_locked", "selA_locked",
               "len_locked", "close_locked", "h_won", "free_check",
               "free_destroy"}

\* C23: mutex discipline.  Whenever a thread is about to read or write the
\* queue or the closed flag of a channel, in any operation, it holds that
\* channel's mutex.
C23_MutexDiscipline ==
    \A t \in Threads : AtChannelAccess(t) => mutex[ch[t]] = t

\* C24: helper termination releases the channel.  Whenever a helper of
\* phase B terminates, as the selected one, by pthread_exit after losing the
\* arbitration, or by cancellation in the condition wait, its cleanup leaves
\* it without its candidate channel's mutex, and does so without ending the
\* process and without touching a mutex the helper does not hold, so that
\* other threads can go on using every candidate channel.
C24_HelperReleasesChannel ==
    [][\A h \in Helpers :
          select_thread_cleanup(h) =>
              /\ mutex'[ch[h]] # h
              /\ panic' = None
              /\ \A c \in Chans : mutex[c] # h => mutex'[c] = mutex[c]]_vars

\* C25: session teardown after all helpers.  When uchan_select has returned
\* from phase B (and destroyed the session's mutex and condition), every
\* helper has terminated: remaining_threads is 0 and no helper is left that
\* reads or writes the session or the items.
C25_TeardownAfterHelpers ==
    selret.phase = "B" =>
        /\ cs.remaining = 0
        /\ \A h \in Helpers : pc[h] = "h_done"

\* C26: the 'selection done' assertion holds.  Whenever the caller of
\* uchan_select resumes from its wait on the session condition, cs.selected
\* is set; and cs.selected is written at most once per call: once a helper
\* is selected, no later helper overwrites it.
C26_SelectionDone ==
    [][/\ pc'[Sel] = "selB_resume" => cs'.selected # NoItem
       /\ cs.selected # NoItem => cs'.selected = cs.selected]_vars

\* In this step helper h leaves its code by cancellation: it enters the
\* cancelled wait or its cleanup handler, and neither by pthread_exit from
\* check_select_continue nor by returning from uchan_receive2.
CancelTakesEffect(h) ==
    /\ pc'[h] \in {"h_cancelled", "h_cleanup"}
    /\ pc[h] \notin {"csc_locked", "h_won", "h_cancelled", "h_cleanup"}

\* Helper h is in pthread_cond_wait of uchan_receive2, or at the call of it.
AtConditionWait(h) ==
    \/ pc[h] \in {"rcv_waiting", "rcv_woken"}
    \/ pc[h] = "rcv_locked" /\ MustWait(ch[h])

SelectCallPending == Running /\ pc[Sel] = "idle" /\ selret = NoReturn

\* Phase A has returned; uchan_select is the only receiver, so the channel it
\* took its value from is the one with a received value.
PhaseATookFrom(c) == selret.phase = "A" /\ recvLog[c] # <<>>

\* C28: phase A tie-breaking is nondeterministic.  When two or more
\* candidates are non-empty at the call of uchan_select, each of them can be
\* the one phase A dequeues from: before the call every candidate can come
\* first in the permutation, and phase A takes its value from the first
\* candidate of the permutation if that one was non-empty at the call,
\* whatever its position in the array.
C28_PhaseATieBreak ==
    /\ [](SelectCallPending =>
            \A c \in Chans : ENABLED (uchan_select_call /\ indices'[1] = c))
    /\ [](selret.phase = "A" /\ indices[1] \in selTies
            => PhaseATookFrom(indices[1]))

\* C28 happens: both channels were non-empty at the call, and phase A took
\* its value from the last channel of the array.
C28_Witness ==
    /\ selTies = Chans
    /\ PhaseATookFrom(NCh - 1)
    /\ ~vqueue_empty(queue[0])

\* uchan_select returned from phase B with item i selected, and channel i
\* is closed, empty, and nothing was ever received from it: helper i won on
\* the closed, drained channel.
ClosedDrainedWon(i) ==
    /\ selret.phase = "B"
    /\ cs.selected = i
    /\ closed[i]
    /\ vqueue_empty(queue[i])
    /\ recvLog[i] = <<>>

\* C29: select on a closed, drained candidate.  Phase A does not select a
\* candidate it finds empty, closed or not; in phase B the helper of a
\* closed, empty candidate does not wait; and when that helper wins,
\* uchan_select returns its index with NULL and had_value = false, and no
\* value was removed from any channel.
C29_ClosedDrainedCandidate ==
    /\ [][/\ (pc[Sel] = "selA_locked" /\ vqueue_empty(queue[ch[Sel]]))
              => selret' = NoReturn
          /\ \A h \in Helpers :
                (pc[h] = "rcv_locked" /\ closed[ch[h]]) => pc'[h] # "rcv_waiting"
         ]_vars
    /\ [](\A i \in Chans :
            ClosedDrainedWon(i) =>
                /\ selret = [idx |-> i, x |-> NULL, ok |-> FALSE, phase |-> "B"]
                /\ \A c \in Chans : recvLog[c] = <<>>)

\* C29 happens: the second channel was closed while empty, nothing was ever
\* sent, and uchan_select returned index 1 with (NULL, false) after both
\* helpers had terminated.
C29_Witness ==
    /\ ClosedDrainedWon(1)
    /\ selret.idx = 1
    /\ ~closed[0]
    /\ \A c \in Chans : sentLog[c] = <<>>
    /\ HelpersDone

(***************************************************************************)
(* Claims about the adjusting and the reading calls of the countdown.      *)
(***************************************************************************)
\* The count as the calls made so far define it: the n of countdown_new plus
\* the amounts added minus the amounts subtracted.
CdBalance == cdInit + cdAdd - cdSub

\* C30: after any interleaving of countdown_add, countdown_sub, countdown_inc
\* and countdown_dec calls of concurrent threads the count is the initial
\* value plus all the amounts added minus all the amounts subtracted (no
\* update is lost, and nothing stops the count at zero), countdown_get
\* returns that value, and countdown_finished returns true exactly when the
\* count is <= 0.
C30_AtomicAdjust ==
    cdInit > 0 =>
        /\ count = CdBalance
        /\ countdown_get = CdBalance
        /\ countdown_finished <=> (CdBalance <= 0)
        /\ cdGot.done => cdGot.ret = cdInit + cdGot.sum
        /\ cdFin.done => (cdFin.ret <=> (cdInit + cdFin.sum <= 0))

\* Both threads have added and subtracted, their calls overlapping (one has
\* its broadcast still to do), the count has gone below zero, and
\* countdown_finished has returned true for a negative count and
\* countdown_get has returned that negative count.
C30_Witness ==
    /\ count < 0
    /\ cdAdd > 0
    /\ \A a \in Adjusters : nadj[a] = MaxAdjust
    /\ \E a \in Adjusters : pc[a] = "cd_bcast"
    /\ cdFin.done /\ cdFin.ret /\ cdInit + cdFin.sum < 0
    /\ cdGot.done /\ cdGot.ret < 0

(***************************************************************************)
(* Claims about the grow and the shrink step of the queue.                 *)
(***************************************************************************)
\* The step is a vqueue_put call on vq.
VqPutStep == vqNput' = vqNput + 1

\* C31: the grow step.  A vqueue_put on a full queue (len = cap) finds
\* head = tail (the assertion does not fail), doubles cap, has the old
\* contents in their logical order in slots 0 .. oldCap - 1 with head = 0
\* and tail = oldCap, and stores the new value at slot oldCap (leaving tail
\* at oldCap + 1); a vqueue_put on a queue that is not full leaves cap as
\* it is.
C31_GrowStep ==
    [][VqPutStep =>
         IF vq.len = vq.cap
         THEN /\ vq.head = vq.tail
              /\ panic' = None
              /\ vqueue_grow(vq).head = 0
              /\ vqueue_grow(vq).tail = vq.cap
              /\ vq'.cap = 2 * vq.cap
              /\ vq'.head = 0
              /\ \A i \in 1 .. vq.cap : vq'.data[i - 1] = Contents(vq)[i]
              /\ vq'.data[vq.cap] = VqPayload(vqNput')
              /\ vq'.tail = vq.cap + 1
              /\ vq'.len = vq.cap + 1
         ELSE vq'.cap = vq.cap]_vars

\* C31 happens: the queue has just grown from a full first array whose head
\* and tail were both at its last slot.
C31_Witness ==
    /\ vqPlan \in EdgePlans
    /\ vqGrows = 1
    /\ vqShrinks = 0
    /\ vqSplit
    /\ vq.cap = 2 * INITIAL_CAP
    /\ vq.len = INITIAL_CAP + 1
    /\ vq.tail = INITIAL_CAP + 1

\* The step is a vqueue_get call on vq that returned a value.
VqGetStep == Len(vqGot') = Len(vqGot) + 1

\* The larger of two capacities.
CapMax(a, b) == IF a < b THEN b ELSE a

\* C32: the shrink step.  A vqueue_get shrinks exactly when, after the
\* removal, cap > INITIAL_CAP and len < cap / 4; the new capacity is then
\* max(cap / 2, INITIAL_CAP), head = 0, tail = len, and the values that
\* remain are the old ones without the first, in their order, whether they
\* lay wrapped around the end of the array or in one piece; a vqueue_get
\* that does not shrink leaves cap as it is.
C32_ShrinkStep ==
    [][VqGetStep =>
         /\ vq'.len = vq.len - 1
         /\ Contents(vq') = Tail(Contents(vq))
         /\ IF vq.cap > INITIAL_CAP /\ vq.len - 1 < vq.cap \div 4
            THEN /\ vq'.cap = CapMax(vq.cap \div 2, INITIAL_CAP)
                 /\ vq'.cap < vq.cap
                 /\ vq'.head = 0
                 /\ vq'.tail = vq'.len
            ELSE vq'.cap = vq.cap]_vars

\* C32 happens: the queue has shrunk twice, once with its values in one
\* piece and once with them wrapped around the end of the array, and has
\* values left.
C32_Witness ==
    /\ vqShrinkKinds = {"linear", "wrapped"}
    /\ vqShrinks = 2
    /\ vq.cap = INITIAL_CAP
    /\ vq.head = 0
    /\ vq.tail = vq.len
    /\ vq.len > 0

(***************************************************************************)
(* Claims about the channel with several kinds of receivers at once.       *)
(***************************************************************************)
\* C33: the receive never dequeues from an empty queue.  With blocking
\* receivers, non-blocking receivers and select helpers on a channel at the
\* same time, the assertion after the wait loop of uchan_receive2 ("closed
\* or queue not empty") never fails and vqueue_get is never called on an
\* empty queue (its "not empty" precondition never fails).
C33_NeverGetOnEmpty ==
    /\ panic # "assertion failed: not closed implies queue not empty"
    /\ panic # "not empty"

\* C34: value conservation with several consumers.  In every reachable
\* state, for every channel, the values enqueued by the completed sends are
\* the values dequeued so far (by blocking receives, non-blocking receives
\* and the select call) followed by the contents of the queue: every value
\* sent is delivered to at most one receiver and no value is invented.
C34_ValueConservation ==
    \A c \in Chans : sentLog[c] = recvLog[c] \o Contents(queue[c])

\* C35: a select helper never unlocks a channel mutex it does not hold.
\* Whenever a helper is about to run the unlock of select_thread_cleanup, on
\* the winner's normal return included, it owns the mutex of its channel.
C35_CleanupOwnsMutex ==
    \A h \in Helpers : pc[h] = "h_cleanup" => mutex[ch[h]] = h

\* C36: the cancellation fan-out only targets spawned helpers.  Whenever a
\* helper is about to become the selected one and run the loop that cancels
\* the other helpers, and whenever one has been selected, pthread_create
\* has run for every item: no items[i].thread that the loop cancels is
\* uninitialised and no helper is created after the winner was chosen.
C36_CancelAfterCreate ==
    LET AllCreated == \A j \in Chans : items[j].created
    IN  /\ \A h \in Helpers :
              (pc[h] = "csc_locked" /\ check_select_continue_selects)
                  => AllCreated
        /\ (cs.alive /\ cs.selected # NoItem) => AllCreated

\* c is INITIAL_CAP times a power of two.
RECURSIVE CapIsScaled(_)
CapIsScaled(c) ==
    \/ c = INITIAL_CAP
    \/ c > INITIAL_CAP /\ c % 2 = 0 /\ CapIsScaled(c \div 2)

\* C37: the index invariant of the ring buffer.  After vqueue_new and after
\* every vqueue_put and vqueue_get, 0 <= head < cap, 0 <= tail < cap,
\* tail = (head + len) mod cap, and cap is INITIAL_CAP times a power of two.
C37_RingIndices ==
    vqPlan # <<>> =>
        /\ 0 <= vq.head /\ vq.head < vq.cap
        /\ 0 <= vq.tail /\ vq.tail < vq.cap
        /\ vq.tail = (vq.head + vq.len) % vq.cap
        /\ CapIsScaled(vq.cap)

\* C37 happens: tail has wrapped around the end of the first array, head
\* has moved, and the full array was replaced by one of twice the capacity,
\* in which the next value lies behind the old ones.
C37_Witness ==
    /\ vqGrows = 1
    /\ vqShrinks = 0
    /\ vqSplit
    /\ vq.cap = 2 * INITIAL_CAP
    /\ vq.head = 0
    /\ vq.tail = vq.len
    /\ Len(vqGot) > 0

====
